---- MODULE Spec2Model ----
(***************************************************************************)
(* Per-table No-Limit Hold'em engine of RedPaladin7/escrow                 *)
(* (package internal/game): the betting state machine, blind posting,      *)
(* side-pot computation, showdown distribution and the hand lifecycle,     *)
(* translated handler by handler from the Go source.                       *)
(*                                                                         *)
(* Every exported method of Game that takes g.lock is one action.  The     *)
(* private helpers are operators over a record g that packs the fields of  *)
(* the Game struct; an operator returns the record after the helper ran.   *)
(***************************************************************************)
EXTENDS Integers, Sequences, FiniteSets, TLC

(* ---------------- program constants ---------------- *)
SmallBlind == 10
BigBlind == 20
InitialStack == 1000

(* ---------------- bounds of the model ---------------- *)
\* hands that may be started in one behaviour
MaxHands == 1
\* accepted player actions in one hand
MaxActs == 4
\* RemovePlayer calls and player actions accepted while no hand is in
\* progress, and penalty endings, together, in one behaviour
MaxOffHand == 1
\* player actions accepted in one behaviour of the table with the penalty pathway
MaxPenaltyActs == 2
\* player actions accepted, and RemovePlayer calls, before the first hand in
\* one behaviour of the table before the first hand
MaxIdleActs == 3
MaxIdleLeaves == 1
\* disconnect supervisor: monitored disconnects and reconnect notifications
\* of one player
MaxDisconnects == 1
MaxReconnects == 2
\* HandleDisconnect goroutines of one player alive at the same time
MaxConcurrent == 2
\* hands of a behaviour in which players come back between two hands: the
\* one being played out and the next
MaxRejoinHands == 2
\* cipher: largest encryption key drawn, and number of key pairs composed
MaxKey == 7
MaxLayers == 3
\* shuffle: number of cards of the decks drawn
MaxDeckLen == 4
\* deal: the deck dealt from is DealDeckLen cards of the 52, starting at a
\* card drawn
DealDeckLen == 6
\* hand evaluation: largest number of community cards drawn
MaxCommunity == 4
\* the capacity of h.broadcast (256 in NewWebSocketHub) and the submissions
\* of one goroutine
HubBuffer == 2
MaxSubmits == 2

\* peer identities, listed in sort.Strings order
AddrOrder == <<"a", "b", "c">>
Players == {AddrOrder[i] : i \in 1..Len(AddrOrder)}

Statuses == {"Waiting", "Dealing", "PreFlop", "Flop", "Turn", "River", "Showdown"}
PlayerActions == {"fold", "check", "call", "bet", "raise"}
\* action strings a peer may send; "junk" is one ParsePlayerAction rejects
ActionStrings == PlayerActions \cup {"junk"}

VARIABLES
    playerStates,       \* Game.playerStates: addr -> PlayerState
    rotationMap,        \* Game.rotationMap: seat -> addr
    nextRotationID,
    currentDealerID,
    currentPlayerTurn,
    currentStatus,
    currentPot,
    highestBet,
    lastRaiserID,
    lastRaiseAmount,
    blockchainEnabled,  \* bc != nil at NewGame
    blockchainGameID,   \* TRUE iff Game.blockchainGameID is not the zero id
    handStart,          \* per hand: chips on the table and seats at hand start
    acted,              \* players that acted in this round since the last bet or raise
    hands, nActs, nIdleActs, nLeaves,
    dh,                 \* Game.DisconnectHandler and its HandleDisconnect goroutines
    deckState,          \* the deck fields of Game and the inputs and results of
                        \* the functions of internal/crypto and internal/deck
    hub                 \* the WebSocketHub and the goroutines that submit to it

vars == <<playerStates, rotationMap, nextRotationID, currentDealerID,
          currentPlayerTurn, currentStatus, currentPot, highestBet,
          lastRaiserID, lastRaiseAmount, blockchainEnabled, blockchainGameID,
          handStart, acted, hands, nActs, nIdleActs, nLeaves, dh, deckState, hub>>

\* the table and its disconnect handler, which the functions of
\* internal/crypto and internal/deck do not touch
tableVars == <<playerStates, rotationMap, nextRotationID, currentDealerID,
               currentPlayerTurn, currentStatus, currentPot, highestBet,
               lastRaiserID, lastRaiseAmount, blockchainEnabled, blockchainGameID,
               handStart, acted, hands, nActs, nIdleActs, nLeaves, dh>>

(* ---------------- helpers ---------------- *)
RECURSIVE SumOver(_, _)
SumOver(f, S) ==
    IF S = {} THEN 0
    ELSE LET x == CHOOSE y \in S : TRUE IN f[x] + SumOver(f, S \ {x})

RECURSIVE SetToSeqs(_)
\* every ordering of a finite set (the iteration orders of a Go map)
SetToSeqs(S) ==
    IF S = {} THEN {<<>>}
    ELSE UNION {{<<x>> \o s : s \in SetToSeqs(S \ {x})} : x \in S}

SeqToSet(s) == {s[i] : i \in 1..Len(s)}

\* the Game struct, packed.  The last fields are not fields of Game: they
\* record what one handler call did on the way: the error it returned, its
\* setStatus calls, its broadcastFunc calls, how ResolveWinner ended the hand,
\* the side pots it computed and the hands it compared, and why checkRoundEnd
\* closed a round; lockHeld: whether the handler runs holding g.lock, and
\* adapter: its calls into the blockchain client, each with lockHeld at the
\* time of the call
G == [playerStates |-> playerStates, rotationMap |-> rotationMap,
      nextRotationID |-> nextRotationID, currentDealerID |-> currentDealerID,
      currentPlayerTurn |-> currentPlayerTurn, currentStatus |-> currentStatus,
      currentPot |-> currentPot, highestBet |-> highestBet,
      lastRaiserID |-> lastRaiserID, lastRaiseAmount |-> lastRaiseAmount,
      blockchainEnabled |-> blockchainEnabled,
      blockchainGameID |-> blockchainGameID,
      listenAddr |-> deckState.listenAddr,
      communityCards |-> deckState.communityCards,
      err |-> "", statusTrace |-> <<currentStatus>>, sent |-> <<>>,
      lockHeld |-> FALSE, adapter |-> <<>>,
      handEnd |-> "none", showdown |-> <<>>,
      roundEnds |-> <<>>, acted |-> acted]

\* game.go: PlayerState zero value as AddPlayer fills it
NewPlayerState == [RotationID |-> 0, IsReady |-> FALSE, IsActive |-> TRUE,
                   IsFolded |-> FALSE, CurrentRoundBet |-> 0, IsAllIn |-> FALSE,
                   Stack |-> InitialStack, TotalBetThisHand |-> 0]

\* g.lock.Lock() with the deferred Unlock: the rest of the handler holds g.lock
Lock(g) == [g EXCEPT !.lockHeld = TRUE]

\* a call of method call of g.blockchain, n times in a row
AdapterCall(g, call, n) ==
    [g EXCEPT !.adapter = @ \o [i \in 1..n |-> [call |-> call, lockHeld |-> g.lockHeld]]]

setStatus(g, status) ==
    [g EXCEPT !.currentStatus = status, !.statusTrace = Append(@, status)]

\* every player but the local node
getOtherPlayers(g) == DOMAIN g.playerStates \ {g.listenAddr}

\* NewMessage(g.listenAddr, msgType, payload) handed to broadcastFunc; the
\* field folded is not part of the message: it records which players were
\* marked folded when the message was sent
sendToPlayers(g, msgType, payload) ==
    [g EXCEPT !.sent = Append(@, [from |-> g.listenAddr, type |-> msgType,
                                  payload |-> payload,
                                  targets |-> getOtherPlayers(g),
                                  folded |-> {a \in DOMAIN g.playerStates :
                                                g.playerStates[a].IsFolded}])]

getReadyPlayers(g) ==
    {a \in DOMAIN g.playerStates : g.playerStates[a].IsReady}

getReadyActivePlayers(g) ==
    {a \in DOMAIN g.playerStates :
        g.playerStates[a].IsReady /\ g.playerStates[a].IsActive}

getNextPlayerID(g, currentID) ==
    IF g.nextRotationID = 0 THEN 0 ELSE (currentID + 1) % g.nextRotationID

\* seat k steps after currentID
SeatAfter(g, currentID, k) ==
    IF g.nextRotationID = 0 THEN 0 ELSE (currentID + k) % g.nextRotationID

SeatActiveNotFolded(g, id) ==
    /\ id \in DOMAIN g.rotationMap
    /\ g.playerStates[g.rotationMap[id]].IsActive
    /\ ~g.playerStates[g.rotationMap[id]].IsFolded

getNextActivePlayerID(g, currentID) ==
    LET n == g.nextRotationID
        hits == {k \in 1..n : SeatActiveNotFolded(g, SeatAfter(g, currentID, k))}
    IN IF hits = {} THEN currentID
       ELSE SeatAfter(g, currentID, CHOOSE k \in hits : \A j \in hits : k <= j)

advanceDealer(g) ==
    LET n == g.nextRotationID
        hits == {k \in 1..n :
                    LET id == SeatAfter(g, g.currentDealerID, k)
                    IN id \in DOMAIN g.rotationMap
                       /\ g.playerStates[g.rotationMap[id]].IsActive}
    IN IF n = 0 \/ hits = {} THEN g
       ELSE [g EXCEPT !.currentDealerID =
                SeatAfter(g, g.currentDealerID, CHOOSE k \in hits : \A j \in hits : k <= j)]

(* ---------------- betting: game.go updatePlayerState ---------------- *)
updatePlayerState(g, addr, action, value) ==
    LET state == g.playerStates[addr] IN
    CASE action = "fold" ->
            [g EXCEPT !.playerStates[addr].IsFolded = TRUE]
      [] action \in {"bet", "raise"} ->
            LET over == value > state.Stack
                actualBet == IF over THEN state.Stack ELSE value
                amountToAdd == actualBet - state.CurrentRoundBet
                raised == actualBet > g.highestBet
            IN [g EXCEPT
                  !.playerStates[addr].IsAllIn = IF over THEN TRUE ELSE @,
                  !.playerStates[addr].CurrentRoundBet = actualBet,
                  !.playerStates[addr].TotalBetThisHand = @ + amountToAdd,
                  !.playerStates[addr].Stack = @ - amountToAdd,
                  !.currentPot = @ + amountToAdd,
                  !.highestBet = IF raised THEN actualBet ELSE @,
                  !.lastRaiserID = IF raised THEN state.RotationID ELSE @]
      [] action = "call" ->
            LET amountNeeded == g.highestBet - state.CurrentRoundBet
                over == amountNeeded > state.Stack
                actualCall == IF over THEN state.Stack ELSE amountNeeded
            IN [g EXCEPT
                  !.playerStates[addr].IsAllIn = IF over THEN TRUE ELSE @,
                  !.playerStates[addr].CurrentRoundBet = @ + actualCall,
                  !.playerStates[addr].TotalBetThisHand = @ + actualCall,
                  !.playerStates[addr].Stack = @ - actualCall,
                  !.currentPot = @ + actualCall]
      [] OTHER -> g

(* ---------------- betting.go ---------------- *)
CanAct(g, a) ==
    /\ g.playerStates[a].IsActive
    /\ ~g.playerStates[a].IsFolded
    /\ ~g.playerStates[a].IsAllIn

ActiveNonFolded(g) ==
    {a \in DOMAIN g.playerStates :
        g.playerStates[a].IsActive /\ ~g.playerStates[a].IsFolded}

CanActSet(g) == {a \in DOMAIN g.playerStates : CanAct(g, a)}

incNextPlayer(g) ==
    LET n == g.nextRotationID
        ok(id) == /\ id \in DOMAIN g.rotationMap
                  /\ CanAct(g, g.rotationMap[id])
        hits == {k \in 1..(n + 1) : ok(SeatAfter(g, g.currentPlayerTurn, k))}
    IN IF hits = {} THEN g
       ELSE [g EXCEPT !.currentPlayerTurn =
                SeatAfter(g, g.currentPlayerTurn,
                          CHOOSE k \in hits : \A j \in hits : k <= j)]

\* why checkRoundEnd returns true: "none" when it returns false
RoundEndReason(g) ==
    LET allMatched == \A a \in CanActSet(g) :
                          g.playerStates[a].CurrentRoundBet >= g.highestBet
    IN IF Cardinality(ActiveNonFolded(g)) <= 1 THEN "walkover"
       ELSE IF Cardinality(CanActSet(g)) = 0 THEN "allin"
       ELSE IF Cardinality(CanActSet(g)) = 1 /\ allMatched THEN "onematched"
       ELSE IF allMatched
               /\ g.currentPlayerTurn = getNextActivePlayerID(g, g.lastRaiserID)
            THEN "matched"
       ELSE "none"

checkRoundEnd(g) == RoundEndReason(g) # "none"

\* dealFlop, dealTurn and dealRiver have the same body: each sets the turn to
\* the first player after the dealer who can act, and appends nothing to
\* communityCards
dealStreet(g) ==
    [g EXCEPT !.currentPlayerTurn = getNextActivePlayerID(g, g.currentDealerID)]

(* ---------------- showdown.go resetHandState ---------------- *)
\* resetHandState without the loop that removes the players with no chips
resetHandStateKeepBusted(g) ==
    setStatus([g EXCEPT
                 !.currentPot = 0, !.highestBet = 0, !.lastRaiseAmount = BigBlind,
                 !.communityCards = <<>>,
                 !.blockchainGameID = IF g.blockchainEnabled THEN FALSE ELSE @],
              "Waiting")

resetHandState(g) ==
    LET g1 == [g EXCEPT
                 !.currentPot = 0, !.highestBet = 0, !.lastRaiseAmount = BigBlind,
                 !.communityCards = <<>>,
                 !.blockchainGameID = IF g.blockchainEnabled THEN FALSE ELSE @,
                 !.playerStates = [a \in DOMAIN g.playerStates |->
                     IF g.playerStates[a].Stack <= 0
                     THEN [g.playerStates[a] EXCEPT !.IsActive = FALSE]
                     ELSE g.playerStates[a]]]
    IN setStatus(g1, "Waiting")

(* ---------------- side pots and distribution ---------------- *)
\* contributions: the active players with chips in this hand
Contributors(g) ==
    {a \in DOMAIN g.playerStates :
        g.playerStates[a].IsActive /\ g.playerStates[a].TotalBetThisHand > 0}

RECURSIVE PotsFrom(_, _, _)
\* one pot per distinct contribution level above previousCap, ascending
PotsFrom(g, S, previousCap) ==
    LET above == {a \in S : g.playerStates[a].TotalBetThisHand > previousCap}
    IN IF above = {} THEN <<>>
       ELSE LET lo == CHOOSE a \in above : \A b \in above :
                        g.playerStates[a].TotalBetThisHand
                            <= g.playerStates[b].TotalBetThisHand
                cap == g.playerStates[lo].TotalBetThisHand
                pot == [Amount |-> (cap - previousCap) * Cardinality(above),
                        Cap |-> cap, EligiblePlayers |-> above]
            IN <<pot>> \o PotsFrom(g, S, cap)

calculateSidePots(g) == PotsFrom(g, Contributors(g), 0)

\* winners is the winner list in playerHands order
distributePot(g, amount, winners) ==
    LET share == amount \div Len(winners)
        remainder == amount % Len(winners)
        win(a) == IF a = winners[1] THEN share + remainder ELSE share
    IN [g EXCEPT !.playerStates = [a \in DOMAIN g.playerStates |->
            IF a \in SeqToSet(winners)
            THEN [g.playerStates[a] EXCEPT !.Stack = @ + win(a)]
            ELSE g.playerStates[a]]]

\* the best-ranked hands among cands, in playerHands order
BestHands(hands_, cands, ranks) ==
    SelectSeq(hands_, LAMBDA a : a \in cands
                        /\ \A b \in SeqToSet(hands_) \cap cands : ranks[a] <= ranks[b])

RECURSIVE DistributeSidePots(_, _, _, _)
DistributeSidePots(g, pots, hands_, ranks) ==
    IF pots = <<>> THEN g
    ELSE LET potWinners == BestHands(hands_, pots[1].EligiblePlayers, ranks)
             g1 == IF Len(potWinners) > 0
                   THEN distributePot(g, pots[1].Amount, potWinners) ELSE g
         IN DistributeSidePots(g1, Tail(pots), hands_, ranks)

(* ---------------- showdown.go ResolveWinner ---------------- *)
\* showdown.go distributeWinningsOnChain, called when called holds: the
\* EndGame call, whose failure is only logged
distributeWinningsOnChain(g, called) ==
    IF called THEN AdapterCall(g, "EndGame", 1) ELSE g

\* order: the iteration order of the playerStates map in this call;
\* ranks: the rank EvaluateBestHand returns for each player's hand
ResolveWinner(g, ranks, order) ==
    LET nonFolded == SelectSeq(order, LAMBDA a :
                        /\ a \in getReadyActivePlayers(g)
                        /\ ~g.playerStates[a].IsFolded)
        onChain == g.blockchainEnabled /\ g.blockchainGameID
    IN IF Len(nonFolded) = 1
       THEN resetHandState(
              [distributeWinningsOnChain(g, onChain)
                  EXCEPT !.playerStates[nonFolded[1]].Stack = @ + g.currentPot,
                         !.handEnd = "walkover"])
       ELSE LET sidePots == calculateSidePots(g)
                g1 == IF Len(sidePots) > 0
                      THEN DistributeSidePots(g, sidePots, nonFolded, ranks)
                      ELSE LET winners == BestHands(nonFolded, SeqToSet(nonFolded), ranks)
                           IN IF Len(winners) > 0
                              THEN distributePot(g, g.currentPot, winners) ELSE g
                allWinners ==
                    IF Len(sidePots) > 0
                    THEN \E i \in 1..Len(sidePots) :
                            Len(BestHands(nonFolded, sidePots[i].EligiblePlayers, ranks)) > 0
                    ELSE Len(BestHands(nonFolded, SeqToSet(nonFolded), ranks)) > 0
            IN resetHandState(
                 [distributeWinningsOnChain(g1, onChain /\ allWinners)
                     EXCEPT !.handEnd = "showdown",
                            !.showdown = <<[sidePots |-> sidePots,
                                            currentPot |-> g.currentPot,
                                            playerHands |-> nonFolded,
                                            playerStates |-> g.playerStates]>>])

(* ---------------- betting.go advanceToNextRound ---------------- *)
advanceToNextRound(g, ranks, order) ==
    LET g0 == [g EXCEPT
                 !.roundEnds = Append(@, [reason |-> RoundEndReason(g),
                                          from |-> g.currentStatus,
                                          unacted |-> CanActSet(g) \ g.acted]),
                 !.acted = {}]
        g1 == [g0 EXCEPT
                 !.playerStates = [a \in DOMAIN g.playerStates |->
                     [g.playerStates[a] EXCEPT !.CurrentRoundBet = 0]],
                 !.highestBet = 0]
    IN CASE g.currentStatus = "Dealing" -> setStatus(g1, "PreFlop")
         [] g.currentStatus = "PreFlop" -> dealStreet(setStatus(g1, "Flop"))
         [] g.currentStatus = "Flop" -> dealStreet(setStatus(g1, "Turn"))
         [] g.currentStatus = "Turn" -> dealStreet(setStatus(g1, "River"))
         [] g.currentStatus = "River" ->
                ResolveWinner(setStatus(g1, "Showdown"), ranks, order)
         [] g.currentStatus = "Showdown" -> resetHandState(g1)
         [] OTHER -> g1

advanceTurnAndCheckRoundEnd(g, ranks, order) ==
    IF checkRoundEnd(g) THEN advanceToNextRound(g, ranks, order)
    ELSE LET g1 == incNextPlayer(g)
         IN IF checkRoundEnd(g1) THEN advanceToNextRound(g1, ranks, order)
            ELSE g1

(* ---------------- game.go postBlinds / StartNewHand ---------------- *)
postBlinds(g) ==
    LET activeCount == Cardinality(getReadyActivePlayers(g)) IN
    IF activeCount = 2
    THEN LET sbID == g.currentDealerID
             g1 == updatePlayerState(g, g.rotationMap[sbID], "bet", SmallBlind)
             bbID == getNextPlayerID(g1, sbID)
             g2 == updatePlayerState(g1, g1.rotationMap[bbID], "bet", BigBlind)
         IN [g2 EXCEPT !.currentPlayerTurn = sbID, !.lastRaiserID = bbID,
                       !.lastRaiseAmount = BigBlind]
    ELSE LET sbID == getNextActivePlayerID(g, g.currentDealerID)
             g1 == updatePlayerState(g, g.rotationMap[sbID], "bet", SmallBlind)
             bbID == getNextActivePlayerID(g1, sbID)
             g2 == updatePlayerState(g1, g1.rotationMap[bbID], "bet", BigBlind)
         IN [g2 EXCEPT !.currentPlayerTurn = getNextActivePlayerID(g2, bbID),
                       !.lastRaiserID = bbID, !.lastRaiseAmount = BigBlind]

\* sort.Strings over a set of addresses
SortStrings(S) == SelectSeq(AddrOrder, LAMBDA a : a \in S)

\* showdown.go InitiateShuffleAndDeal, as far as the betting state goes:
\* the deck is built and dealt, then the status is set to PreFlop
InitiateShuffleAndDeal(g) == setStatus(g, "PreFlop")

\* createOk: whether the adapter's CreateGame call succeeds
StartNewHand(g, createOk) ==
    LET activeReadyPlayers == getReadyActivePlayers(g) IN
    IF Cardinality(activeReadyPlayers) < 2 THEN setStatus(g, "Waiting")
    ELSE
    LET sorted == SortStrings(activeReadyPlayers)
        n == Len(sorted)
        seatOf(a) == CHOOSE i \in 0..(n - 1) : sorted[i + 1] = a
        gc == IF g.blockchainEnabled /\ ~g.blockchainGameID
              THEN [AdapterCall(g, "CreateGame", 1) EXCEPT
                       !.blockchainGameID = createOk]
              ELSE g
        gv == IF gc.blockchainEnabled /\ gc.blockchainGameID
              THEN AdapterCall(gc, "VerifyBuyIn", n) ELSE gc
        g1 == [gv EXCEPT
                 !.rotationMap = [i \in 0..(n - 1) |-> sorted[i + 1]],
                 !.nextRotationID = n,
                 !.lastRaiseAmount = BigBlind,
                 !.currentPot = 0,
                 !.highestBet = 0,
                 !.communityCards = <<>>,
                 !.playerStates = [a \in DOMAIN g.playerStates |->
                     IF a \in activeReadyPlayers
                     THEN [g.playerStates[a] EXCEPT
                             !.RotationID = seatOf(a), !.IsFolded = FALSE,
                             !.CurrentRoundBet = 0, !.TotalBetThisHand = 0,
                             !.IsAllIn = FALSE]
                     ELSE g.playerStates[a]],
                 !.acted = {}]
        g2 == postBlinds(advanceDealer(g1))
        g3 == IF g2.blockchainEnabled /\ g2.blockchainGameID
              THEN AdapterCall(g2, "StartGame", 1) ELSE g2
    IN InitiateShuffleAndDeal(setStatus(g3, "Dealing"))

(* ---------------- showdown.go getValidActions / HandlePlayerAction -------- *)
getValidActions(g, clientID) ==
    IF clientID \notin DOMAIN g.playerStates THEN {}
    ELSE
    LET state == g.playerStates[clientID]
        minRaise == IF g.highestBet = 0 THEN BigBlind
                    ELSE g.highestBet + g.lastRaiseAmount
    IN {"fold"}
       \cup (IF g.highestBet = 0 \/ state.CurrentRoundBet = g.highestBet
             THEN {"check"} ELSE {})
       \cup (IF g.highestBet > state.CurrentRoundBet /\ state.Stack > 0
             THEN {"call"} ELSE {})
       \cup (IF state.Stack > (minRaise - state.CurrentRoundBet)
             THEN (IF g.highestBet = 0 THEN {"bet"} ELSE {"raise"}) ELSE {})

Fail(g, e) == [g EXCEPT !.err = e]

\* ValidateAmount with the raise size recorded before the stack check
ValidateAmountEarlyWrite(g, clientID, action, value) ==
    LET myState == g.playerStates[clientID] IN
    CASE action = "bet" ->
            IF value < BigBlind THEN Fail(g, "bet below big blind")
            ELSE IF value > myState.Stack
                 THEN Fail([g EXCEPT !.lastRaiseAmount = value], "bet exceeds stack")
            ELSE [g EXCEPT !.lastRaiseAmount = value]
      [] action = "raise" ->
            IF value < g.highestBet + g.lastRaiseAmount
            THEN Fail(g, "raise below minimum")
            ELSE IF value > myState.Stack
                 THEN Fail([g EXCEPT !.lastRaiseAmount = value - g.highestBet],
                           "raise exceeds stack")
            ELSE [g EXCEPT !.lastRaiseAmount = value - g.highestBet]
      [] OTHER -> g

\* the switch that validates bet / raise amounts and records the raise size
ValidateAmount(g, clientID, action, value) ==
    LET myState == g.playerStates[clientID] IN
    CASE action = "bet" ->
            IF value < BigBlind THEN Fail(g, "bet below big blind")
            ELSE IF value > myState.Stack THEN Fail(g, "bet exceeds stack")
            ELSE [g EXCEPT !.lastRaiseAmount = value]
      [] action = "raise" ->
            IF value < g.highestBet + g.lastRaiseAmount
            THEN Fail(g, "raise below minimum")
            ELSE IF value > myState.Stack THEN Fail(g, "raise exceeds stack")
            ELSE [g EXCEPT !.lastRaiseAmount = value - g.highestBet]
      [] OTHER -> g

\* the fold branch: reveal the keys, then mark the player folded
RevealOnFold(g, clientID, action) ==
    IF action = "fold"
    THEN [sendToPlayers(g, "reveal_keys", <<"deckKeys">>)
             EXCEPT !.playerStates[clientID].IsFolded = TRUE]
    ELSE g

\* bookkeeping for the round-end properties: who acted since the last raise
NoteActed(g, before, clientID) ==
    [g EXCEPT !.acted = IF g.highestBet > before.highestBet
                        THEN {clientID} ELSE @ \cup {clientID}]

HandlePlayerAction(g, clientID, actionStr, value, ranks, order) ==
    IF actionStr \notin PlayerActions THEN Fail(Lock(g), "invalid action string")
    ELSE IF clientID \notin DOMAIN g.playerStates
         THEN Fail(Lock(g), "player not found")
    ELSE IF g.playerStates[clientID].RotationID # g.currentPlayerTurn
         THEN Fail(Lock(g), "it is not your turn")
    ELSE IF actionStr \notin getValidActions(g, clientID)
         THEN Fail(Lock(g), "invalid action")
    ELSE LET g1 == ValidateAmount(Lock(g), clientID, actionStr, value) IN
         IF g1.err # "" THEN g1
         ELSE LET g2 == RevealOnFold(g1, clientID, actionStr)
                  g3 == updatePlayerState(g2, clientID, actionStr, value)
                  g4 == sendToPlayers(g3, "player_action",
                                      <<actionStr, value, g3.currentStatus>>)
              IN advanceTurnAndCheckRoundEnd(NoteActed(g4, g, clientID), ranks, order)

(* ---------------- state machine ---------------- *)
Stacks(ps) == [a \in DOMAIN ps |-> ps[a].Stack]
TotalBets(ps) == [a \in DOMAIN ps |-> ps[a].TotalBetThisHand]
SumStacks(ps) == SumOver(Stacks(ps), DOMAIN ps)
SumTotalBets(ps) == SumOver(TotalBets(ps), DOMAIN ps)

NoSeats == [i \in {} |-> "a"]

\* game.go NewGame: listenAddr is the address of the local node, here a node
\* that holds no seat of its own; communityCards is empty and no deck is built
\* before the first hand
NoDeck == [listenAddr |-> "node", communityCards |-> <<>>]

\* websocket_hub.go NewWebSocketHub, with Run started and the goroutines that
\* submit messages: broadcast is the buffered channel h.broadcast, closed is
\* h.closed (Close closes the channel in the same critical section), loop
\* is the state of Run; pc[p] is the position of goroutine p: "idle" between
\* two submissions, "checked" in Broadcast after it read h.closed, "blocked"
\* in a channel send that waits for room, "panicked" after a send on the
\* closed channel; outcome[p] is what p's last submission did
NewWebSocketHub ==
    [broadcast |-> <<>>, closed |-> FALSE, loop |-> "running",
     pc |-> [p \in {"p1", "p2"} |-> "idle"],
     outcome |-> [p \in {"p1", "p2"} |-> "none"],
     nSubmits |-> [p \in {"p1", "p2"} |-> 0]]

\* the goroutines that run HandleDisconnect: the one MonitorPlayerConnection
\* spawns for a player carries the player's id, and one it spawns while that
\* one has not returned carries the id Concurrent gives
Concurrent == [a |-> "a2", b |-> "b2", c |-> "c2"]
Goroutines == Players \cup {Concurrent[p] : p \in Players}
PlayerOf(r) == IF r \in Players THEN r ELSE CHOOSE p \in Players : Concurrent[p] = r

\* part_006 NewDisconnectHandler: no timers, no channels, no goroutine.
\* A channel is named by the goroutine that made it: reconnectChannels[p]
\* is "none" while the map has no entry for p, else the channel stored for
\* p; channel[r] is the buffer of the channel r made, waitsOn[r] the channel
\* r's select receives from, timer[r] the timer of r and pc[r] the position
\* of r; pc["api"] is the position of an EndGameWithPenalty call made from
\* outside the handler. abandoned are the players handleAbandon marked,
\* run[r] is what abortGameWithPenalty of r has computed: the players left,
\* the loads and stores still to make, the stacks it found and the stack
\* its p.Stack += remainder has loaded; Status is
\* dh.game.Status. early, penalties and endCalls record, for each
\* disconnect, whether a reconnect arrived before the timer fired, and the
\* runs of abortGameWithPenalty and of EndGameWithPenalty
NoRun == [left |-> {}, writes |-> <<>>, before |-> [a \in {} |-> 0], loaded |-> 0]

NewDisconnectHandler ==
    [disconnectTimers |-> {},
     reconnectChannels |-> [p \in Players |-> "none"],
     channel |-> [r \in Goroutines |-> "empty"],
     waitsOn |-> [r \in Goroutines |-> "none"],
     timer |-> [r \in Goroutines |-> "none"],
     pc |-> [r \in Goroutines \cup {"api"} |-> "none"],
     run |-> [r \in Goroutines |-> NoRun],
     abandoned |-> {},
     Status |-> "none",
     early |-> [p \in Players |-> FALSE],
     penalties |-> <<>>,
     endCalls |-> 0,
     nDisconnects |-> [p \in Players |-> 0],
     nReconnects |-> [p \in Players |-> 0]]

Init ==
    /\ playerStates = [a \in {} |-> NewPlayerState]
    /\ rotationMap = NoSeats
    /\ nextRotationID = 0
    /\ currentDealerID = 0
    /\ currentPlayerTurn = 0
    /\ currentStatus = "Waiting"
    /\ currentPot = 0
    /\ highestBet = 0
    /\ lastRaiserID = 0
    /\ lastRaiseAmount = 0
    /\ blockchainEnabled = FALSE
    /\ blockchainGameID = FALSE
    /\ handStart = [chips |-> 0, seats |-> NoSeats]
    /\ acted = {}
    /\ hands = 0 /\ nActs = 0 /\ nIdleActs = 0 /\ nLeaves = 0
    /\ dh = NewDisconnectHandler
    /\ hub = NewWebSocketHub
    /\ deckState = NoDeck

\* the fields of the record a handler returns become the next state
CommitTable(g) ==
    /\ playerStates' = g.playerStates
    /\ rotationMap' = g.rotationMap
    /\ nextRotationID' = g.nextRotationID
    /\ currentDealerID' = g.currentDealerID
    /\ currentPlayerTurn' = g.currentPlayerTurn
    /\ currentStatus' = g.currentStatus
    /\ currentPot' = g.currentPot
    /\ highestBet' = g.highestBet
    /\ lastRaiserID' = g.lastRaiserID
    /\ lastRaiseAmount' = g.lastRaiseAmount
    /\ blockchainGameID' = g.blockchainGameID
    /\ acted' = g.acted
    /\ UNCHANGED <<blockchainEnabled, hub>>

\* showdown.go resetHandState on the deck fields: the hand, the board, the
\* deck and both maps of other players' keys are emptied; listenAddr and
\* deckKeys are not assigned
resetDeckFields(ds) ==
    [f \in DOMAIN ds |->
        IF f \in {"listenAddr", "deckKeys"} THEN ds[f]
        ELSE IF f \in {"revealedKeys", "foldedPlayerKeys"} THEN [a \in {} |-> 0]
        ELSE <<>>]

\* a handler that builds no deck
CommitGame(g) ==
    /\ CommitTable(g)
    /\ deckState' = IF g.handEnd # "none" THEN resetDeckFields(deckState)
                    ELSE [deckState EXCEPT !.communityCards = g.communityCards]

\* a handler of the table, which leaves the disconnect handler alone. An
\* EndGameWithPenalty call that has reached its setStatus writes
\* g.currentStatus without g.lock: when the write falls inside a handler
\* that sets the status itself, after the handler read the status and before
\* its last setStatus, the handler's status stands and the call has returned
Commit(g) ==
    /\ CommitGame(g)
    /\ \/ UNCHANGED dh
       \/ /\ Len(g.statusTrace) > 1
          /\ \E c \in {c \in DOMAIN dh.pc : dh.pc[c] = "setStatus"} :
                dh' = [dh EXCEPT !.pc[c] = "done"]

\* part_006 AddPlayer
AddPlayerG(g, addr) ==
    IF addr \in DOMAIN g.playerStates
    THEN [Lock(g) EXCEPT !.playerStates[addr].IsActive = TRUE]
    ELSE [Lock(g) EXCEPT !.playerStates =
            [a \in DOMAIN g.playerStates \cup {addr} |->
                IF a = addr THEN NewPlayerState ELSE g.playerStates[a]]]

AddPlayer(addr) ==
    /\ Commit(AddPlayerG(G, addr))
    /\ handStart' = IF addr \in DOMAIN playerStates THEN handStart
                    ELSE [handStart EXCEPT !.chips = @ + InitialStack]
    /\ UNCHANGED <<hands, nActs, nIdleActs, nLeaves>>

\* part_006 RemovePlayer: the result of checkRoundEnd is discarded
RemovePlayerG(g, addr) ==
    IF addr \in DOMAIN g.playerStates
    THEN [Lock(g) EXCEPT !.playerStates[addr].IsActive = FALSE,
                         !.playerStates[addr].IsFolded = TRUE]
    ELSE Lock(g)

\* room: whether the behaviour may take one more RemovePlayer call
RemovePlayerWithin(addr, room) ==
    /\ room
    /\ nLeaves' = nLeaves + 1
    /\ Commit(RemovePlayerG(G, addr))
    /\ UNCHANGED <<handStart, hands, nActs, nIdleActs>>

RemovePlayer(addr) == RemovePlayerWithin(addr, nIdleActs + nLeaves < MaxOffHand)

\* part_006 SetPlayerReady
SetPlayerReadyG(g, addr, createOk) ==
    IF addr \notin DOMAIN g.playerStates THEN Fail(Lock(g), "player not found")
    ELSE
    LET state == g.playerStates[addr]
        g1 == IF ~state.IsReady
              THEN [Lock(g) EXCEPT
                      !.playerStates[addr].RotationID = g.nextRotationID,
                      !.playerStates[addr].IsReady = TRUE,
                      !.rotationMap = [i \in DOMAIN g.rotationMap \cup {g.nextRotationID} |->
                          IF i = g.nextRotationID THEN addr ELSE g.rotationMap[i]],
                      !.nextRotationID = @ + 1]
              ELSE Lock(g)
        g2 == sendToPlayers(g1, "player_ready", <<addr>>)
    IN IF Cardinality(getReadyPlayers(g2)) >= 2 /\ g2.currentStatus = "Waiting"
       THEN StartNewHand(g2, createOk)
       ELSE g2

\* whether a handler call dealt a new hand
Dealt(g) == "Dealing" \in SeqToSet(Tail(g.statusTrace))

\* max: the hands the behaviour may deal
SetPlayerReadyUpTo(addr, max) ==
    \E createOk \in (IF blockchainEnabled THEN BOOLEAN ELSE {TRUE}) :
    LET g == SetPlayerReadyG(G, addr, createOk)
    IN /\ Dealt(g) => hands < max
       /\ Commit(g)
       /\ hands' = IF Dealt(g) THEN hands + 1 ELSE hands
       /\ nActs' = IF Dealt(g) THEN 0 ELSE nActs
       /\ handStart' = IF Dealt(g)
                       THEN [chips |-> SumStacks(playerStates), seats |-> g.rotationMap]
                       ELSE handStart
       /\ UNCHANGED <<nIdleActs, nLeaves>>

SetPlayerReady(addr) == SetPlayerReadyUpTo(addr, MaxHands)

\* the bet / raise amounts a peer may send: below the minimum, the minimum,
\* the whole stack and more than the stack
ValueChoices(addr, actionStr) ==
    IF actionStr \notin {"bet", "raise"} THEN {0}
    ELSE {0}
         \cup (IF actionStr = "bet" THEN {BigBlind}
               ELSE {highestBet + lastRaiseAmount})
         \cup (IF addr \in DOMAIN playerStates
               THEN {playerStates[addr].Stack, playerStates[addr].Stack + SmallBlind}
               ELSE {})

\* the player_action messages a peer may send in the current state
ActionInputs ==
    UNION {{[addr |-> a, actionStr |-> act, value |-> v] :
                v \in ValueChoices(a, act)} : a \in Players, act \in ActionStrings}

\* the hand ranks and the iteration order of the playerStates map are read
\* only when ResolveWinner compares hands; other calls do not depend on them.
\* ResolveWinner ranks a hand with EvaluateBestHand(holeCards,
\* g.communityCards): the hole cards are the two of decryptPlayerCards and
\* g.communityCards is never appended to (dealCommunityCards has no
\* caller), so EvaluateBestHand has fewer than five cards and returns
\* 999999 for every player: every showdown is a tie
NoShowdown == [ranks |-> [a \in Players |-> 999999], order |-> AddrOrder]

ShowdownInputs(addr, actionStr, value) ==
    IF HandlePlayerAction(G, addr, actionStr, value,
                          NoShowdown.ranks, NoShowdown.order).handEnd = "showdown"
    THEN [ranks : {NoShowdown.ranks}, order : SetToSeqs(Players)]
    ELSE {NoShowdown}

\* the table takes the state g in which a HandlePlayerAction call returned; a
\* rejected call returns with the state as the handler left it.
\* idleRoom, handRoom: whether the behaviour may take one more accepted
\* action while no hand is in progress, and during a hand
PlayerActionOutcome(g, idleRoom, handRoom) ==
    LET ok == g.err = ""
        idle == currentStatus = "Waiting"
    IN /\ ok => IF idle THEN idleRoom ELSE handRoom
       /\ Commit(g)
       /\ handStart' = IF g.handEnd # "none"
                       THEN [handStart EXCEPT !.seats = NoSeats] ELSE handStart
       /\ nActs' = IF ok /\ ~idle THEN nActs + 1 ELSE nActs
       /\ nIdleActs' = IF ok /\ idle THEN nIdleActs + 1 ELSE nIdleActs
       /\ UNCHANGED <<hands, nLeaves>>

\* showdown.go HandlePlayerAction
PlayerActionWithin(addr, actionStr, value, idleRoom, handRoom) ==
    \E sd \in ShowdownInputs(addr, actionStr, value) :
       PlayerActionOutcome(
          HandlePlayerAction(G, addr, actionStr, value, sd.ranks, sd.order),
          idleRoom, handRoom)

PlayerAction(addr, actionStr, value) ==
    PlayerActionWithin(addr, actionStr, value,
                       nIdleActs + nLeaves < MaxOffHand, nActs < MaxActs)

Next ==
    \/ \E addr \in Players : AddPlayer(addr)
    \/ \E addr \in Players : RemovePlayer(addr)
    \/ \E addr \in Players : SetPlayerReady(addr)
    \/ \E addr \in Players, actionStr \in ActionStrings :
          \E value \in ValueChoices(addr, actionStr) :
             PlayerAction(addr, actionStr, value)

Spec == Init /\ [][Next]_vars

\* game.go EndGameWithPenalty run from its first to its last line with no
\* other goroutine in between; submitOk: whether the adapter's penalty
\* submission succeeds
EndGameWithPenaltyG(g, abandonedPlayerID, submitOk) ==
    IF abandonedPlayerID \notin DOMAIN g.playerStates
    THEN Fail(g, "abandoned player not found")
    ELSE LET g1 == IF g.blockchainEnabled
                   THEN AdapterCall(g, "EndGameWithPenalty", 1) ELSE g
         IN IF g.blockchainEnabled /\ ~submitOk
            THEN Fail(g1, "blockchain penalty submission failed")
            ELSE setStatus(g1, "Finished")

\* game.go EndGameWithPenalty called from outside the disconnect handler,
\* up to the adapter call: GetPlayer looks the abandoned player up under the
\* read lock, which is released before anything else is done
EndGameWithPenalty(addr) ==
    /\ dh.pc["api"] \in {"none", "done"}
    /\ nIdleActs + nLeaves < MaxOffHand
    /\ nLeaves' = nLeaves + 1
    /\ CommitGame(G)
    /\ dh' = [dh EXCEPT !.pc["api"] =
                IF addr \notin DOMAIN playerStates THEN "done"
                ELSE IF blockchainEnabled THEN "call" ELSE "setStatus"]
    /\ UNCHANGED <<handStart, hands, nActs, nIdleActs>>

\* game.go EndGameWithPenalty, g.blockchain.EndGameWithPenalty returns: the
\* call is made with no lock held; a failed submission is returned as an
\* error and the status is not set
EndGameWithPenaltyCall(c) ==
    /\ dh.pc[c] = "call"
    /\ \E submitOk \in BOOLEAN :
          dh' = [dh EXCEPT !.pc[c] = IF submitOk THEN "setStatus" ELSE "done"]
    /\ CommitGame(G)
    /\ UNCHANGED <<handStart, hands, nActs, nIdleActs, nLeaves>>

\* game.go EndGameWithPenalty, setStatus(GameStatusFinished), without g.lock
EndGameWithPenaltySetStatus(c) ==
    /\ dh.pc[c] = "setStatus"
    /\ dh' = [dh EXCEPT !.pc[c] = "done"]
    /\ CommitGame(setStatus(G, "Finished"))
    /\ UNCHANGED <<handStart, hands, nActs, nIdleActs, nLeaves>>

\* the table with the abandonment penalty pathway
NextPenalty ==
    \/ Next /\ nActs' <= MaxPenaltyActs
    \/ \E addr \in Players : EndGameWithPenalty(addr)
    \/ EndGameWithPenaltySetStatus("api")

SpecPenalty == Init /\ [][NextPenalty]_vars

\* the table before the first hand: peers join, leave, become ready and send
\* player actions while the status is Waiting, up to the deal of a hand
NextIdle ==
    \/ \E addr \in Players : AddPlayer(addr)
    \/ \E addr \in Players : RemovePlayerWithin(addr, nLeaves < MaxIdleLeaves)
    \/ \E addr \in Players : SetPlayerReady(addr)
    \/ \E addr \in Players, actionStr \in ActionStrings :
          \E value \in ValueChoices(addr, actionStr) :
             PlayerActionWithin(addr, actionStr, value,
                                nIdleActs < MaxIdleActs, FALSE)

SpecIdle == Init /\ [][NextIdle]_vars

(* ---------------- the betting rules on drawn tables ---------------- *)
\* stacks, round bets and highest bets a heads-up table is drawn from
StackChoices == {0, BigBlind, BigBlind + SmallBlind, InitialStack - BigBlind}
RoundBetChoices == {0, SmallBlind, BigBlind}
HighestBetChoices == {0, BigBlind, BigBlind + BigBlind}

\* a heads-up table in the middle of a betting round: a, at seat 0, is to
\* act with the drawn stack and round bet; b, at seat 1, made the last bet.
\* The table is the one held by the node of a, by the node of b, or by a node
\* without a seat
DrawnTable(status, stack, roundBet, highest, raiseAmount) ==
    [a \in {"a", "b"} |->
        IF a = "a"
        THEN [NewPlayerState EXCEPT !.RotationID = 0, !.IsReady = TRUE,
                 !.Stack = stack, !.CurrentRoundBet = roundBet,
                 !.TotalBetThisHand = roundBet]
        ELSE [NewPlayerState EXCEPT !.RotationID = 1, !.IsReady = TRUE,
                 !.Stack = InitialStack - highest, !.CurrentRoundBet = highest,
                 !.TotalBetThisHand = highest]]

InitTable ==
    \E status \in {"PreFlop", "Flop"}, stack \in StackChoices,
       roundBet \in RoundBetChoices, highest \in HighestBetChoices,
       raiseAmount \in {BigBlind, BigBlind + BigBlind},
       listenAddr \in {"a", "b", NoDeck.listenAddr} :
       /\ roundBet <= highest
       /\ playerStates = DrawnTable(status, stack, roundBet, highest, raiseAmount)
       /\ rotationMap = [i \in {0, 1} |-> AddrOrder[i + 1]]
       /\ nextRotationID = 2
       /\ currentDealerID = 1
       /\ currentPlayerTurn = 0
       /\ currentStatus = status
       /\ currentPot = roundBet + highest
       /\ highestBet = highest
       /\ lastRaiserID = 1
       /\ lastRaiseAmount = raiseAmount
       /\ blockchainEnabled = FALSE
       /\ blockchainGameID = FALSE
       /\ handStart = [chips |-> stack + roundBet + InitialStack,
                       seats |-> [i \in {0, 1} |-> AddrOrder[i + 1]]]
       /\ acted = {}
       /\ hands = 1 /\ nActs = 0 /\ nIdleActs = 0 /\ nLeaves = 0
       /\ dh = NewDisconnectHandler
       /\ hub = NewWebSocketHub
       /\ deckState = [NoDeck EXCEPT !.listenAddr = listenAddr]

NextTable ==
    \E addr \in Players, actionStr \in ActionStrings :
       \E value \in ValueChoices(addr, actionStr) :
          PlayerAction(addr, actionStr, value)

SpecTable == InitTable /\ [][NextTable]_vars

(* ---------------- hand start on drawn tables ---------------- *)
\* stacks the players of a table between two hands are drawn from
DealStackChoices == {SmallBlind, BigBlind, InitialStack}

\* a table between two hands: the players of S were dealt into the last
\* hand, hold the seats of that hand and the drawn stacks, and are all ready
InitDeal ==
    \E n \in {2, 3} :
    \E stacks \in [{AddrOrder[i] : i \in 1..n} -> DealStackChoices],
       dealer \in 0..(n - 1) :
       /\ playerStates = [a \in DOMAIN stacks |->
             [NewPlayerState EXCEPT
                 !.RotationID = CHOOSE i \in 0..(n - 1) : AddrOrder[i + 1] = a,
                 !.IsReady = TRUE, !.Stack = stacks[a]]]
       /\ rotationMap = [i \in 0..(n - 1) |-> AddrOrder[i + 1]]
       /\ nextRotationID = n
       /\ currentDealerID = dealer
       /\ currentPlayerTurn = 0
       /\ currentStatus = "Waiting"
       /\ currentPot = 0
       /\ highestBet = 0
       /\ lastRaiserID = 0
       /\ lastRaiseAmount = BigBlind
       /\ blockchainEnabled = FALSE
       /\ blockchainGameID = FALSE
       /\ handStart = [chips |-> SumOver(stacks, DOMAIN stacks), seats |-> NoSeats]
       /\ acted = {}
       /\ hands = 0 /\ nActs = 0 /\ nIdleActs = 0 /\ nLeaves = 0
       /\ dh = NewDisconnectHandler
       /\ hub = NewWebSocketHub
       /\ deckState = NoDeck

SpecDeal == InitDeal /\ [][\E addr \in Players : SetPlayerReady(addr)]_vars

(* ---------------- showdown on drawn tables ---------------- *)
\* what a player dealt into the hand has put in, and where the player stands
BetLevelChoices == {BigBlind, BigBlind + BigBlind + 1}
Standings == {"in", "allin", "folded", "spent", "removed"}

\* a three-handed table on the river, bets of the earlier streets in the pot:
\* a player still in has matched the top bet level, an all-in player has no
\* stack left, a spent player folded after a bet of exactly its stack
\* (updatePlayerState sets IsAllIn only for a bet above the stack), a
\* removed player is inactive and folded
InitShowdown ==
    \E tb \in [Players -> BetLevelChoices], fl \in [Players -> Standings],
       raiser \in 0..(Len(AddrOrder) - 1) :
       LET seatOf(a) == CHOOSE i \in 0..(Len(AddrOrder) - 1) : AddrOrder[i + 1] = a
           canAct == {a \in Players : fl[a] = "in"}
           first == CHOOSE a \in canAct : \A b \in canAct : seatOf(a) <= seatOf(b)
       IN /\ canAct # {}
          /\ \A a \in canAct : \A b \in Players : tb[b] <= tb[a]
          /\ playerStates = [a \in Players |->
                [NewPlayerState EXCEPT
                    !.RotationID = seatOf(a), !.IsReady = TRUE,
                    !.IsActive = fl[a] # "removed",
                    !.IsFolded = fl[a] \in {"folded", "spent", "removed"},
                    !.IsAllIn = fl[a] = "allin",
                    !.Stack = IF fl[a] \in {"allin", "spent"} THEN 0
                              ELSE InitialStack - tb[a],
                    !.TotalBetThisHand = tb[a]]]
          /\ rotationMap = [i \in 0..(Len(AddrOrder) - 1) |-> AddrOrder[i + 1]]
          /\ nextRotationID = Len(AddrOrder)
          /\ currentDealerID = 0
          /\ currentPlayerTurn = seatOf(first)
          /\ currentStatus = "River"
          /\ currentPot = SumOver(tb, Players)
          /\ highestBet = 0
          /\ lastRaiserID = raiser
          /\ lastRaiseAmount = BigBlind
          /\ blockchainEnabled = FALSE
          /\ blockchainGameID = FALSE
          /\ handStart = [chips |-> SumOver(tb, Players)
                                    + SumOver([a \in Players |->
                                         IF fl[a] \in {"allin", "spent"} THEN 0
                                         ELSE InitialStack - tb[a]], Players),
                          seats |-> [i \in 0..(Len(AddrOrder) - 1) |-> AddrOrder[i + 1]]]
          /\ acted = {}
          /\ hands = 1 /\ nActs = 0 /\ nIdleActs = 0 /\ nLeaves = 0
          /\ dh = NewDisconnectHandler
          /\ hub = NewWebSocketHub
          /\ deckState = NoDeck

NextShowdown ==
    \E addr \in Players, actionStr \in ActionStrings :
       \E value \in ValueChoices(addr, actionStr) :
          PlayerAction(addr, actionStr, value)

SpecShowdown == InitShowdown /\ [][NextShowdown]_vars

\* what HandlePlayerAction returns for message in, with showdown inputs sd
OutcomeOf(in, sd) ==
    HandlePlayerAction(G, in.addr, in.actionStr, in.value, sd.ranks, sd.order)

\* the showdown inputs that go with message in
ShowdownInputsOf(in) == ShowdownInputs(in.addr, in.actionStr, in.value)

BettingStatuses == {"PreFlop", "Flop", "Turn", "River"}
HandStatuses == {"Dealing"} \cup BettingStatuses \cup {"Showdown"}

(* ---------------- disconnect handler ---------------- *)
\* the goroutine MonitorPlayerConnection spawns runs HandleDisconnect in
\* steps, one per critical section, channel operation or unlocked write:
\* "start" before the first lock, "newTimer" after the channel is stored,
\* "register" after time.NewTimer, "select" once the timer is stored, "wait"
\* in the select; "cleanup" after the reconnect was received; on the timer
\* "mark", "abort" and "write" in handleAbandon and abortGameWithPenalty,
\* "call" and "setStatus" in EndGameWithPenalty; "done" after it returned.
\* Its context is context.Background(), so the case <-ctx.Done() is never
\* taken
Running(p) == dh.pc[p] \notin {"none", "done"}

\* game.go MonitorPlayerConnection, under g.lock, called at most max times
\* for one player. The call returns unless the status is
\* GameStatusInProgress or GameStatusDealing. GameStatusInProgress is
\* declared nowhere in the sources and no handler sets it: like
\* GameStatusFinished it is a status of its own, outside the seven of the
\* enumeration, so the goroutine is spawned in Dealing only. It is spawned
\* whether or not an earlier one for the same player is still running
MonitorPlayerConnectionUpTo(playerID, max) ==
    LET r == IF Running(playerID) THEN Concurrent[playerID] ELSE playerID IN
    /\ dh.nDisconnects[playerID] < max
    /\ ~Running(r)
    /\ IF \/ playerID \notin DOMAIN playerStates
          \/ currentStatus \notin {"InProgress", "Dealing"}
       THEN /\ CommitGame(Lock(G))
            /\ dh' = [dh EXCEPT !.nDisconnects[playerID] = @ + 1]
       ELSE /\ CommitGame([Lock(G) EXCEPT !.playerStates[playerID].IsActive = FALSE])
            /\ dh' = [dh EXCEPT !.nDisconnects[playerID] = @ + 1,
                                !.pc[r] = "start",
                                !.timer[r] = "none",
                                !.early[playerID] = FALSE]
    /\ UNCHANGED <<handStart, hands, nActs, nIdleActs, nLeaves>>

MonitorPlayerConnection(playerID) == MonitorPlayerConnectionUpTo(playerID, MaxDisconnects)

\* part_006 HandleDisconnect, first critical section: give up when a timer
\* is registered for the player, else store a fresh one-slot channel
HandleDisconnectChannel(r) ==
    /\ dh.pc[r] = "start"
    /\ dh' = IF PlayerOf(r) \in dh.disconnectTimers
             THEN [dh EXCEPT !.pc[r] = "done"]
             ELSE [dh EXCEPT !.reconnectChannels[PlayerOf(r)] = r,
                             !.channel[r] = "empty",
                             !.pc[r] = "newTimer"]
    /\ CommitGame(G)
    /\ UNCHANGED <<handStart, hands, nActs, nIdleActs, nLeaves>>

\* part_006 HandleDisconnect: time.NewTimer(DisconnectTimeout), outside dh.mu
HandleDisconnectNewTimer(r) ==
    /\ dh.pc[r] = "newTimer"
    /\ dh' = [dh EXCEPT !.timer[r] = "running", !.pc[r] = "register"]
    /\ CommitGame(G)
    /\ UNCHANGED <<handStart, hands, nActs, nIdleActs, nLeaves>>

\* part_006 HandleDisconnect, second critical section: store the timer
HandleDisconnectRegister(r) ==
    /\ dh.pc[r] = "register"
    /\ dh' = [dh EXCEPT !.disconnectTimers = @ \cup {PlayerOf(r)},
                        !.pc[r] = "select"]
    /\ CommitGame(G)
    /\ UNCHANGED <<handStart, hands, nActs, nIdleActs, nLeaves>>

\* part_006 HandleDisconnect enters its select: the channel of the case
\* <-dh.reconnectChannels[playerID] is read from the map, outside dh.mu,
\* once; without an entry it is the nil channel, which never delivers
HandleDisconnectSelect(r) ==
    /\ dh.pc[r] = "select"
    /\ dh' = [dh EXCEPT !.waitsOn[r] = dh.reconnectChannels[PlayerOf(r)],
                        !.pc[r] = "wait"]
    /\ CommitGame(G)
    /\ UNCHANGED <<handStart, hands, nActs, nIdleActs, nLeaves>>

\* DisconnectTimeout elapses: the runtime sends on timer.C
TimerFires(r) ==
    /\ dh.timer[r] = "running"
    /\ dh' = [dh EXCEPT !.timer[r] = "fired"]
    /\ CommitGame(G)
    /\ UNCHANGED <<handStart, hands, nActs, nIdleActs, nLeaves>>

\* part_006 HandleDisconnect, select case <-dh.reconnectChannels[playerID]:
\* the value is received and the timer stopped, outside dh.mu
HandleDisconnectReconnected(r) ==
    /\ dh.pc[r] = "wait"
    /\ dh.waitsOn[r] # "none"
    /\ dh.channel[dh.waitsOn[r]] = "full"
    /\ dh' = [dh EXCEPT !.channel[dh.waitsOn[r]] = "empty",
                        !.timer[r] = IF @ = "running" THEN "stopped" ELSE @,
                        !.pc[r] = "cleanup"]
    /\ CommitGame(G)
    /\ UNCHANGED <<handStart, hands, nActs, nIdleActs, nLeaves>>

\* part_006 HandleDisconnect, critical section of the reconnect case: both
\* map entries are deleted
HandleDisconnectCleanup(r) ==
    /\ dh.pc[r] = "cleanup"
    /\ dh' = [dh EXCEPT !.disconnectTimers = @ \ {PlayerOf(r)},
                        !.reconnectChannels[PlayerOf(r)] = "none",
                        !.pc[r] = "done"]
    /\ CommitGame(G)
    /\ UNCHANGED <<handStart, hands, nActs, nIdleActs, nLeaves>>

\* part_006 HandleReconnect: an error without a channel, else a send that is
\* dropped when the slot is taken
HandleReconnect(d, playerID) ==
    IF d.reconnectChannels[playerID] = "none" THEN d
    ELSE [d EXCEPT !.channel[d.reconnectChannels[playerID]] = "full"]

\* game.go NotifyPlayerReconnected, under g.lock. early records a reconnect
\* of a disconnected player whose grace timer has not fired
NotifyPlayerReconnected(playerID) ==
    /\ dh.nReconnects[playerID] < MaxReconnects
    /\ CommitGame(IF playerID \in DOMAIN playerStates
                  THEN [Lock(G) EXCEPT !.playerStates[playerID].IsActive = TRUE]
                  ELSE Lock(G))
    /\ dh' = [HandleReconnect(dh, playerID) EXCEPT
                !.nReconnects[playerID] = @ + 1,
                !.early[playerID] = @ \/ (Running(playerID) /\ dh.timer[playerID] # "fired")]
    /\ UNCHANGED <<handStart, hands, nActs, nIdleActs, nLeaves>>

\* part_006 abortGameWithPenalty: the players left are those of another id
\* that no handleAbandon marked abandoned
RemainingPlayers(d, g, abandonedPlayerID) ==
    {a \in DOMAIN g.playerStates : a # abandonedPlayerID /\ a \notin d.abandoned}

\* the BuyIn field abortGameWithPenalty reads is declared nowhere in the
\* sources; it is read as the buy-in every player sat down with
BuyIn == InitialStack

\* part_006 abortGameWithPenalty on the table, run from its first to its
\* last line with no other goroutine in between: every player left is set
\* to the buy-in plus an equal share of the abandoned player's buy-in, first
\* (the head of dh.game.Players among those left) also gets the remainder,
\* the abandoned player's stack is zeroed and EndGameWithPenalty runs
abortGameWithPenaltyG(d, g, abandonedPlayerID, first, submitOk) ==
    LET remainingPlayers == RemainingPlayers(d, g, abandonedPlayerID) IN
    IF remainingPlayers = {} THEN g
    ELSE LET penaltyPerPlayer == BuyIn \div Cardinality(remainingPlayers)
             remainder == BuyIn % Cardinality(remainingPlayers)
             g1 == [g EXCEPT !.playerStates =
                      [a \in DOMAIN g.playerStates |->
                         IF a \in remainingPlayers
                         THEN [g.playerStates[a] EXCEPT !.Stack =
                                 BuyIn + penaltyPerPlayer
                                 + (IF a = first THEN remainder ELSE 0)]
                         ELSE IF a = abandonedPlayerID
                         THEN [g.playerStates[a] EXCEPT !.Stack = 0]
                         ELSE g.playerStates[a]]]
         IN IF g.blockchainEnabled
            THEN EndGameWithPenaltyG(g1, abandonedPlayerID, submitOk)
            ELSE g1

\* part_006 HandleDisconnect, select case <-timer.C, and the critical
\* section of handleAbandon: both map entries are deleted
handleAbandon(r) ==
    /\ dh.pc[r] = "wait"
    /\ dh.timer[r] = "fired"
    /\ dh' = [dh EXCEPT !.disconnectTimers = @ \ {PlayerOf(r)},
                        !.reconnectChannels[PlayerOf(r)] = "none",
                        !.pc[r] = "mark"]
    /\ CommitGame(G)
    /\ UNCHANGED <<handStart, hands, nActs, nIdleActs, nLeaves>>

\* part_006 handleAbandon after its critical section: GetPlayer under the
\* read lock of g.lock, then player.Status = PlayerAbandoned with no lock
handleAbandonMark(r) ==
    /\ dh.pc[r] = "mark"
    /\ dh' = IF PlayerOf(r) \notin DOMAIN playerStates
             THEN [dh EXCEPT !.pc[r] = "done"]
             ELSE [dh EXCEPT !.abandoned = @ \cup {PlayerOf(r)}, !.pc[r] = "abort"]
    /\ CommitGame(G)
    /\ UNCHANGED <<handStart, hands, nActs, nIdleActs, nLeaves>>

\* part_006 abortGameWithPenalty up to its first write: GetPlayer under the
\* read lock, then the players left are collected and the shares computed
\* with no lock; without players left it returns an error. The accesses to
\* make are, for first (index 0 of the players left), the store
\* p.Stack = p.BuyIn + penaltyPerPlayer and the load and the store of
\* p.Stack += remainder, for each other player left the one store, and the
\* store abandonedPlayer.Stack = 0
abortGameWithPenalty(r) ==
    /\ dh.pc[r] = "abort"
    /\ LET left == RemainingPlayers(dh, G, PlayerOf(r)) IN
       IF left = {}
       THEN dh' = [dh EXCEPT !.pc[r] = "done"]
       ELSE \E first \in left :
            LET penaltyPerPlayer == BuyIn \div Cardinality(left)
                remainder == BuyIn % Cardinality(left)
                others == SortStrings(left \ {first})
                store(p, v) == [op |-> "store", player |-> p, value |-> v]
            IN dh' = [dh EXCEPT
                        !.run[r] = [left |-> left,
                                    writes |->
                                        <<store(first, BuyIn + penaltyPerPlayer),
                                          [op |-> "load", player |-> first, value |-> 0],
                                          [op |-> "add", player |-> first,
                                           value |-> remainder]>>
                                        \o [i \in 1..Len(others) |->
                                              store(others[i], BuyIn + penaltyPerPlayer)]
                                        \o <<store(PlayerOf(r), 0)>>,
                                    before |-> playerStates,
                                    loaded |-> 0],
                        !.pc[r] = "write"]
    /\ CommitGame(G)
    /\ UNCHANGED <<handStart, hands, nActs, nIdleActs, nLeaves>>

\* part_006 abortGameWithPenalty, one memory access, made with no lock:
\* the next store to a stack, the load of p.Stack += remainder or its store
\* of the loaded value plus the remainder, or, the stacks written,
\* dh.game.Status = GameAborted; after that EndGameWithPenalty is called
\* when a blockchain client is attached, and its GetPlayer looks the
\* abandoned player up
abortGameWithPenaltyWrite(r) ==
    /\ dh.pc[r] = "write"
    /\ LET writes == dh.run[r].writes IN
       IF writes # <<>>
       THEN LET w == writes[1] IN
            /\ dh' = [dh EXCEPT !.run[r].writes = Tail(writes),
                                !.run[r].loaded = IF w.op = "load"
                                                  THEN playerStates[w.player].Stack
                                                  ELSE 0]
            /\ CommitGame(IF w.op = "load" THEN G
                          ELSE [G EXCEPT !.playerStates[w.player].Stack =
                                  IF w.op = "add" THEN dh.run[r].loaded + w.value
                                  ELSE w.value])
       ELSE /\ dh' = [dh EXCEPT
                        !.Status = "GameAborted",
                        !.penalties = Append(@, [player |-> PlayerOf(r), by |-> r,
                                                 left |-> dh.run[r].left,
                                                 before |-> dh.run[r].before]),
                        !.endCalls = IF blockchainEnabled THEN @ + 1 ELSE @,
                        !.pc[r] = IF blockchainEnabled THEN "call" ELSE "done"]
            /\ CommitGame(G)
    /\ UNCHANGED <<handStart, hands, nActs, nIdleActs, nLeaves>>

\* NewGame, then a, b and c join and a and b are ready: a heads-up hand is
\* dealt with c at the table; bc: whether a blockchain client is attached.
\* The disconnect handler is followed from this table and from the one of
\* a hand whose deal broke off
NewGame(bc) ==
    [playerStates |-> [a \in {} |-> NewPlayerState], rotationMap |-> NoSeats,
     nextRotationID |-> 0, currentDealerID |-> 0, currentPlayerTurn |-> 0,
     currentStatus |-> "Waiting", currentPot |-> 0, highestBet |-> 0,
     lastRaiserID |-> 0, lastRaiseAmount |-> 0,
     blockchainEnabled |-> bc, blockchainGameID |-> FALSE,
     listenAddr |-> NoDeck.listenAddr, communityCards |-> NoDeck.communityCards,
     err |-> "", statusTrace |-> <<"Waiting">>, sent |-> <<>>,
     lockHeld |-> FALSE, adapter |-> <<>>,
     handEnd |-> "none", showdown |-> <<>>, roundEnds |-> <<>>, acted |-> {}]

Joined(bc) == AddPlayerG(AddPlayerG(AddPlayerG(NewGame(bc), "a"), "b"), "c")

TableInHand(bc) == SetPlayerReadyG(SetPlayerReadyG(Joined(bc), "a", TRUE), "b", TRUE)

\* the table variables hold the fields of g
TableIs(g) ==
    /\ playerStates = g.playerStates
    /\ rotationMap = g.rotationMap
    /\ nextRotationID = g.nextRotationID
    /\ currentDealerID = g.currentDealerID
    /\ currentPlayerTurn = g.currentPlayerTurn
    /\ currentStatus = g.currentStatus
    /\ currentPot = g.currentPot
    /\ highestBet = g.highestBet
    /\ lastRaiserID = g.lastRaiserID
    /\ lastRaiseAmount = g.lastRaiseAmount
    /\ blockchainEnabled = g.blockchainEnabled
    /\ blockchainGameID = g.blockchainGameID
    /\ acted = g.acted

\* the table SetPlayerReady leaves when InitiateShuffleAndDeal breaks off in
\* the encryption with the keys a failed GenerateCardKeys did not return:
\* seats taken and blinds posted, the status Dealing of StartNewHand
TableDealing(bc) == [TableInHand(bc) EXCEPT !.currentStatus = "Dealing",
                                            !.statusTrace = SubSeq(@, 1, Len(@) - 1)]

InitDisconnect ==
    \E bc \in BOOLEAN : \E g \in {TableInHand(bc), TableDealing(bc)} :
       /\ TableIs(g)
       /\ handStart = [chips |-> 3 * InitialStack, seats |-> rotationMap]
       /\ hands = 1 /\ nActs = 0 /\ nIdleActs = 0 /\ nLeaves = 0
       /\ dh = NewDisconnectHandler
       /\ hub = NewWebSocketHub
       /\ deckState = NoDeck

NextDisconnect ==
    \E playerID \in {"a", "b"} :
       \/ MonitorPlayerConnection(playerID)
       \/ HandleDisconnectChannel(playerID)
       \/ HandleDisconnectNewTimer(playerID)
       \/ HandleDisconnectRegister(playerID)
       \/ HandleDisconnectSelect(playerID)
       \/ TimerFires(playerID)
       \/ HandleDisconnectReconnected(playerID)
       \/ HandleDisconnectCleanup(playerID)
       \/ handleAbandon(playerID)
       \/ handleAbandonMark(playerID)
       \/ abortGameWithPenalty(playerID)
       \/ abortGameWithPenaltyWrite(playerID)
       \/ EndGameWithPenaltyCall(playerID)
       \/ EndGameWithPenaltySetStatus(playerID)
       \/ NotifyPlayerReconnected(playerID)

SpecDisconnect == InitDisconnect /\ [][NextDisconnect]_vars

\* the connection of player a closes while the goroutine of an earlier
\* close is still in HandleDisconnect, and nobody reconnects
SpecConcurrent ==
    InitDisconnect /\
    [][\/ MonitorPlayerConnectionUpTo("a", MaxConcurrent)
       \/ \E r \in Goroutines :
             \/ HandleDisconnectChannel(r)
             \/ HandleDisconnectNewTimer(r)
             \/ HandleDisconnectRegister(r)
             \/ HandleDisconnectSelect(r)
             \/ TimerFires(r)
             \/ handleAbandon(r)
             \/ handleAbandonMark(r)
             \/ abortGameWithPenalty(r)
             \/ abortGameWithPenaltyWrite(r)
             \/ EndGameWithPenaltyCall(r)
             \/ EndGameWithPenaltySetStatus(r)]_vars

(* ---------------- players coming back between two hands ---------------- *)
\* the river of a hand is checked or folded out, players are added again or
\* notified as reconnected, and a ready call deals the next hand
SpecRejoin ==
    InitShowdown /\
    [][\/ \E addr \in Players, actionStr \in {"fold", "check"} :
             PlayerActionWithin(addr, actionStr, 0, FALSE,
                                hands < MaxRejoinHands /\ nActs < MaxActs)
       \/ \E addr \in Players : AddPlayer(addr)
       \/ \E playerID \in Players : NotifyPlayerReconnected(playerID)
       \/ \E addr \in Players : SetPlayerReadyUpTo(addr, MaxRejoinHands)]_vars

(* ---------------- the blockchain client ---------------- *)
\* NewGame with a blockchain client attached; a, b and c joined
InitAdapter ==
    /\ TableIs(Joined(TRUE))
    /\ handStart = [chips |-> 3 * InitialStack, seats |-> NoSeats]
    /\ hands = 0 /\ nActs = 0 /\ nIdleActs = 0 /\ nLeaves = 0
    /\ dh = NewDisconnectHandler
    /\ hub = NewWebSocketHub
    /\ deckState = NoDeck

\* a hand is dealt, folded and checked to its end, or ended with a penalty
SpecAdapter ==
    InitAdapter /\ [][\/ \E addr \in Players : SetPlayerReady(addr)
                      \/ \E addr \in Players, actionStr \in {"fold", "check"} :
                            PlayerAction(addr, actionStr, 0)
                      \/ \E addr \in Players : EndGameWithPenalty(addr)
                      \/ EndGameWithPenaltyCall("api")
                      \/ EndGameWithPenaltySetStatus("api")]_vars

(* ---------------- internal/server: the broadcast hub ---------------- *)
\* websocket_hub.go Broadcast, up to the release of the read lock: return
\* when the hub is closed
BroadcastCheck(p) ==
    /\ hub.pc[p] = "idle"
    /\ hub.nSubmits[p] < MaxSubmits
    /\ hub' = IF hub.closed
              THEN [hub EXCEPT !.nSubmits[p] = @ + 1, !.outcome[p] = "returned"]
              ELSE [hub EXCEPT !.nSubmits[p] = @ + 1, !.pc[p] = "checked"]
    /\ UNCHANGED <<tableVars, deckState>>

\* websocket_hub.go Broadcast, the select: a send on the closed channel
\* panics; else the message is queued when there is room and dropped when
\* the buffer is full
BroadcastSelect(p) ==
    /\ hub.pc[p] = "checked"
    /\ hub' = IF hub.closed THEN [hub EXCEPT !.pc[p] = "panicked"]
              ELSE IF Len(hub.broadcast) < HubBuffer
              THEN [hub EXCEPT !.broadcast = Append(@, p), !.pc[p] = "idle",
                               !.outcome[p] = "sent"]
              ELSE [hub EXCEPT !.pc[p] = "idle", !.outcome[p] = "dropped"]
    /\ UNCHANGED <<tableVars, deckState>>

\* server.go broadcastToPlayers without targets: a plain channel send, which
\* panics on the closed channel and waits while the buffer is full
broadcastToPlayers(p) ==
    /\ \/ hub.pc[p] = "idle" /\ hub.nSubmits[p] < MaxSubmits
       \/ hub.pc[p] = "blocked" /\ (hub.closed \/ Len(hub.broadcast) < HubBuffer)
    /\ LET h == IF hub.pc[p] = "idle" THEN [hub EXCEPT !.nSubmits[p] = @ + 1]
                ELSE hub
       IN hub' = IF hub.closed THEN [h EXCEPT !.pc[p] = "panicked"]
                 ELSE IF Len(hub.broadcast) < HubBuffer
                 THEN [h EXCEPT !.broadcast = Append(@, p), !.pc[p] = "idle",
                                !.outcome[p] = "sent"]
                 ELSE [h EXCEPT !.pc[p] = "blocked"]
    /\ UNCHANGED <<tableVars, deckState>>

\* websocket_hub.go Close
Close ==
    /\ ~hub.closed
    /\ hub' = [hub EXCEPT !.closed = TRUE]
    /\ UNCHANGED <<tableVars, deckState>>

\* websocket_hub.go Run, one turn of the loop: the context is done and Run
\* returns, or a message is received and handed to broadcastMessage; the
\* receive from the closed, drained channel yields nil, which
\* broadcastMessage dereferences
Run ==
    /\ hub.loop = "running"
    /\ \/ hub' = [hub EXCEPT !.loop = "stopped"]
       \/ /\ hub.broadcast # <<>>
          /\ hub' = [hub EXCEPT !.broadcast = Tail(@)]
       \/ /\ hub.broadcast = <<>> /\ hub.closed
          /\ hub' = [hub EXCEPT !.loop = "panicked"]
    /\ UNCHANGED <<tableVars, deckState>>

SpecHub ==
    Init /\ [][\/ \E p \in DOMAIN hub.pc :
                     BroadcastCheck(p) \/ BroadcastSelect(p) \/ broadcastToPlayers(p)
               \/ Close
               \/ Run]_vars

(* ---------------- internal/crypto: the commutative cipher ---------------- *)
\* big.Int SetBytes: the big-endian value of a byte slice
RECURSIVE SetBytes(_)
SetBytes(data) ==
    IF data = <<>> THEN 0
    ELSE SetBytes(SubSeq(data, 1, Len(data) - 1)) * 256 + data[Len(data)]

\* big.Int Bytes: the big-endian bytes of a value without leading zeros;
\* the value 0 gives the empty slice
RECURSIVE Bytes(_)
Bytes(n) == IF n = 0 THEN <<>> ELSE Append(Bytes(n \div 256), n % 256)

\* big.Int Exp(x, y, m) = x^y mod m
RECURSIVE Exp(_, _, _)
Exp(x, y, m) ==
    IF y = 0 THEN 1 % m
    ELSE LET h == Exp(x, y \div 2, m)
             sq == (h * h) % m
         IN IF y % 2 = 1 THEN (sq * x) % m ELSE sq

RECURSIVE GCD(_, _)
GCD(a, b) == IF b = 0 THEN a ELSE GCD(b, a % b)

\* big.Int ModInverse(g, n), for g coprime with n
ModInverse(g, n) == CHOOSE x \in 1..(n - 1) : (g * x) % n = 1

\* mental_poker.go generateRandomKey: the keys in [2, prime - 1] coprime
\* with prime - 1, of which the ones up to MaxKey are drawn
RandomKeys(prime) ==
    {key \in 2..(prime - 1) : key <= MaxKey /\ GCD(key, prime - 1) = 1}

\* mental_poker.go GenerateCardKeysWithPrime, with encKey the key drawn
GenerateCardKeysWithPrime(prime, encKey) ==
    [EncKey |-> encKey, DecKey |-> ModInverse(encKey, prime - 1), Prime |-> prime]

\* mental_poker.go CardKeys.Encrypt
Encrypt(ck, data) == Bytes(Exp(SetBytes(data), ck.EncKey, ck.Prime))

\* a decryption that raises to the encryption key
DecryptWithEncKey(ck, data) == Bytes(Exp(SetBytes(data), ck.EncKey, ck.Prime))

\* mental_poker.go CardKeys.Decrypt
Decrypt(ck, data) == Bytes(Exp(SetBytes(data), ck.DecKey, ck.Prime))

\* a payload m in [1, prime - 1] and a list of one to MaxLayers key pairs
\* over prime, a prime of one-byte or (263) of two-byte residues; applied and
\* removed are the positions of the keys already used to encrypt and to
\* decrypt
InitCipher ==
    /\ \E prime \in {11, 23, 263} : \E k \in 1..MaxLayers :
       \E keysList \in [1..k -> {GenerateCardKeysWithPrime(prime, e) :
                                    e \in RandomKeys(prime)}] :
       \E m \in 1..(prime - 1) :
          deckState = [prime |-> prime, keysList |-> keysList, m |-> m,
                       data |-> Bytes(m), applied |-> {}, removed |-> {}]
    /\ playerStates = [a \in {} |-> NewPlayerState]
    /\ rotationMap = NoSeats
    /\ nextRotationID = 0
    /\ currentDealerID = 0
    /\ currentPlayerTurn = 0
    /\ currentStatus = "Waiting"
    /\ currentPot = 0
    /\ highestBet = 0
    /\ lastRaiserID = 0
    /\ lastRaiseAmount = 0
    /\ blockchainEnabled = FALSE
    /\ blockchainGameID = FALSE
    /\ handStart = [chips |-> 0, seats |-> NoSeats]
    /\ acted = {}
    /\ hands = 0 /\ nActs = 0 /\ nIdleActs = 0 /\ nLeaves = 0
    /\ dh = NewDisconnectHandler
    /\ hub = NewWebSocketHub

\* one step of part_004 CombineEncryption, the keys taken in any order
CombineEncryption(i) ==
    /\ i \in DOMAIN deckState.keysList
    /\ i \notin deckState.applied
    /\ deckState' = [deckState EXCEPT
                       !.data = Encrypt(deckState.keysList[i], @),
                       !.applied = @ \cup {i}]
    /\ UNCHANGED <<tableVars, hub>>

\* one step of part_004 CombineDecryption, once every key was applied
CombineDecryption(i) ==
    /\ deckState.applied = DOMAIN deckState.keysList
    /\ i \in DOMAIN deckState.keysList
    /\ i \notin deckState.removed
    /\ deckState' = [deckState EXCEPT
                       !.data = Decrypt(deckState.keysList[i], @),
                       !.removed = @ \cup {i}]
    /\ UNCHANGED <<tableVars, hub>>

SpecCipher ==
    InitCipher /\ [][\E i \in 1..MaxLayers : CombineEncryption(i) \/ CombineDecryption(i)]_vars

(* ---------------- internal/crypto: the shuffle ---------------- *)
\* shuffle.go ShuffleDeck, a Fisher-Yates shuffle; js[i] is the index
\* rand.Int draws in 0..i for position i (positions count from 0 as in the
\* code; a failed draw leaves position i alone, as the draw i does)
ShuffleDeck(deck, js) ==
    LET RECURSIVE from(_, _)
        from(shuffled, i) ==
            IF i < 1 THEN shuffled
            ELSE from([shuffled EXCEPT ![i + 1] = shuffled[js[i] + 1],
                                       ![js[i] + 1] = shuffled[i + 1]], i - 1)
    IN from(deck, Len(deck) - 1)

\* shuffle.go VerifyShuffle
VerifyShuffle(original, shuffled) ==
    /\ Len(original) = Len(shuffled)
    /\ Cardinality({i \in DOMAIN original : original[i] # shuffled[i]})
         >= (Len(original) * 4) \div 5

\* a deck of two to MaxDeckLen different one-byte payloads, not shuffled yet
InitShuffle ==
    /\ \E n \in 2..MaxDeckLen :
          deckState = [deck |-> [i \in 1..n |-> <<i>>],
                       shuffled |-> [i \in 1..n |-> <<i>>], calls |-> 0]
    /\ playerStates = [a \in {} |-> NewPlayerState]
    /\ rotationMap = NoSeats
    /\ nextRotationID = 0
    /\ currentDealerID = 0
    /\ currentPlayerTurn = 0
    /\ currentStatus = "Waiting"
    /\ currentPot = 0
    /\ highestBet = 0
    /\ lastRaiserID = 0
    /\ lastRaiseAmount = 0
    /\ blockchainEnabled = FALSE
    /\ blockchainGameID = FALSE
    /\ handStart = [chips |-> 0, seats |-> NoSeats]
    /\ acted = {}
    /\ hands = 0 /\ nActs = 0 /\ nIdleActs = 0 /\ nLeaves = 0
    /\ dh = NewDisconnectHandler
    /\ hub = NewWebSocketHub

\* one ShuffleDeck call on the deck the last call returned
ShuffleDeckCall ==
    /\ \E js \in [1..(Len(deckState.shuffled) - 1) -> 0..(MaxDeckLen - 1)] :
          /\ \A i \in DOMAIN js : js[i] <= i
          /\ deckState' = [deck |-> deckState.shuffled,
                           shuffled |-> ShuffleDeck(deckState.shuffled, js),
                           calls |-> 1]
    /\ UNCHANGED <<tableVars, hub>>

SpecShuffle == InitShuffle /\ [][ShuffleDeckCall]_vars

(* ---------------- showdown.go: shuffle and deal ---------------- *)
\* evaluator.go NewCardFromByte
NewCardFromByte(b) == [Suit |-> b % 4, Value |-> (b \div 4) + 2]

\* part_004 EncryptDeck
EncryptDeck(deck, keys) == [i \in DOMAIN deck |-> Encrypt(keys, deck[i])]

\* showdown.go decryptPlayerCards: the two slots of the player's rotation id,
\* decrypted with the folded players' keys and with the revealed keys (both
\* maps from addresses to key pairs); an empty result gives no card
decryptPlayerCards(ds, rotationID) ==
    LET RECURSIVE strip(_, _, _)
        strip(card, keysOf, i) ==
            IF i > Len(AddrOrder) THEN card
            ELSE strip(IF AddrOrder[i] \in DOMAIN keysOf
                       THEN Decrypt(keysOf[AddrOrder[i]], card) ELSE card,
                       keysOf, i + 1)
        cardAt(idx) ==
            IF idx >= Len(ds.currentDeck) THEN <<>>
            ELSE LET decryptedCard ==
                         strip(strip(ds.currentDeck[idx + 1], ds.foldedPlayerKeys, 1),
                               ds.revealedKeys, 1)
                 IN IF Len(decryptedCard) > 0
                    THEN <<NewCardFromByte(decryptedCard[1])>> ELSE <<>>
    IN cardAt(rotationID * 2) \o cardAt(rotationID * 2 + 1)

\* mental_poker.go GenerateCardKeys: the modulus every key pair is generated
\* over. The constant of the code, 0xC7970CEDCC5226685694605929849D3D, is
\* the composite 23 * 739 * 32479 * ...; 413 = 7 * 59 stands for it: as over
\* the code's constant, encryption is one-to-one on the payloads 0..51, and
\* of these only 0 and 1 are given back by Decrypt after Encrypt
sharedPrime == 413

\* showdown.go InitiateShuffleAndDeal and dealHoleCards on the deck fields:
\* the deck is encrypted with this node's keys and shuffled; then, for every
\* dealt player other than this node, it is encrypted with a key pair
\* generated for that player and shuffled again, and the key pair is stored
\* in revealedKeys; this node decrypts its own hole cards when it is dealt
\* in. deck: deck.NewDeck().ToBytes(); tempKeys: the key pair generated for
\* each other player; shuffles: the draws of the ShuffleDeck calls; plain:
\* the plaintext deck in the order the shuffles gave it. The loop takes the
\* players in the order of getReadyActivePlayers; the layers commute, so
\* they are taken in sorted order here
InitiateShuffleAndDealCards(ds, g, deck, tempKeys, shuffles) ==
    LET others == SortStrings(DOMAIN tempKeys)
        RECURSIVE layered(_)
        layered(i) ==
            IF i = 0 THEN ShuffleDeck(EncryptDeck(deck, ds.deckKeys), shuffles[1])
            ELSE ShuffleDeck(EncryptDeck(layered(i - 1), tempKeys[others[i]]),
                             shuffles[i + 1])
        RECURSIVE ordered(_)
        ordered(i) ==
            IF i = 0 THEN ShuffleDeck(deck, shuffles[1])
            ELSE ShuffleDeck(ordered(i - 1), shuffles[i + 1])
        ds1 == [ds EXCEPT !.currentDeck = layered(Len(others)),
                          !.revealedKeys = tempKeys,
                          !.foldedPlayerKeys = [a \in {} |-> 0],
                          !.plain = ordered(Len(others))]
    IN [ds1 EXCEPT !.myHand =
            IF ds.listenAddr \in getReadyActivePlayers(g)
            THEN decryptPlayerCards(ds1, g.playerStates[ds.listenAddr].RotationID)
            ELSE <<>>]

\* NewGame at one of the players with the deck keys GenerateCardKeys gave
\* it, a, b and c joined and a ready
InitHoleCards ==
    LET g == SetPlayerReadyG(Joined(FALSE), "a", TRUE)
    IN /\ \E listenAddr \in Players : \E encKey \in RandomKeys(sharedPrime) :
            deckState = [listenAddr |-> listenAddr, communityCards |-> <<>>,
                         deckKeys |-> GenerateCardKeysWithPrime(sharedPrime, encKey),
                         currentDeck |-> <<>>, plain |-> <<>>, myHand |-> <<>>,
                         revealedKeys |-> [a \in {} |-> 0],
                         foldedPlayerKeys |-> [a \in {} |-> 0]]
       /\ playerStates = g.playerStates
       /\ rotationMap = g.rotationMap
       /\ nextRotationID = g.nextRotationID
       /\ currentDealerID = g.currentDealerID
       /\ currentPlayerTurn = g.currentPlayerTurn
       /\ currentStatus = g.currentStatus
       /\ currentPot = g.currentPot
       /\ highestBet = g.highestBet
       /\ lastRaiserID = g.lastRaiserID
       /\ lastRaiseAmount = g.lastRaiseAmount
       /\ blockchainEnabled = FALSE
       /\ blockchainGameID = g.blockchainGameID
       /\ handStart = [chips |-> 3 * InitialStack, seats |-> NoSeats]
       /\ acted = g.acted
       /\ hands = 0 /\ nActs = 0 /\ nIdleActs = 0 /\ nLeaves = 0
       /\ dh = NewDisconnectHandler
       /\ hub = NewWebSocketHub

\* part_006 SetPlayerReady of a player whose call starts a hand:
\* StartNewHand deals the hand and InitiateShuffleAndDeal builds the deck;
\* first: the payload of the first card of the deck dealt from; ShuffleDraws:
\* the draws of one ShuffleDeck call, by which every card stays or every
\* position is swapped with its left neighbour. The error
\* of GenerateCardKeys is ignored: when the call for player failed returns no
\* keys, EncryptDeck panics on them and the handler unwinds, releasing g.lock,
\* with the status still Dealing, the layers of the players done before
\* failed (any of the others: getReadyActivePlayers ranges over a map) on the
\* deck, and no hole cards
SetPlayerReadyDealOutcome(g) ==
    LET others == getReadyActivePlayers(g) \ {deckState.listenAddr}
        ShuffleDraws ==
            {[i \in 1..(DealDeckLen - 1) |-> i], [i \in 1..(DealDeckLen - 1) |-> i - 1]}
        deal(layers, encKeys, shuffles, first) ==
            InitiateShuffleAndDealCards(deckState, g,
                [i \in 1..DealDeckLen |-> <<first + i - 1>>],
                [a \in layers |-> GenerateCardKeysWithPrime(sharedPrime, encKeys[a])],
                shuffles)
    IN /\ Dealt(g)
       /\ \E first \in {0, 52 - DealDeckLen} :
          \/ \E encKeys \in [others -> RandomKeys(sharedPrime)] :
             \E shuffles \in [1..(Cardinality(others) + 1) -> ShuffleDraws] :
                /\ CommitTable(g)
                /\ deckState' = deal(others, encKeys, shuffles, first)
          \/ \E failed \in others : \E done \in SUBSET (others \ {failed}) :
             \E encKeys \in [done -> RandomKeys(sharedPrime)] :
             \E shuffles \in [1..(Cardinality(done) + 1) -> ShuffleDraws] :
                /\ CommitTable([g EXCEPT !.currentStatus = "Dealing",
                                         !.statusTrace = SubSeq(@, 1, Len(@) - 1)])
                /\ deckState' = [deal(done, encKeys, shuffles, first)
                                   EXCEPT !.myHand = <<>>]
       /\ hands' = hands + 1
       /\ handStart' = [chips |-> SumStacks(playerStates), seats |-> g.rotationMap]
       /\ UNCHANGED <<nActs, nIdleActs, nLeaves, dh>>

SetPlayerReadyDeal(addr) == SetPlayerReadyDealOutcome(SetPlayerReadyG(G, addr, TRUE))

SpecHoleCards == InitHoleCards /\ [][\E addr \in Players : SetPlayerReadyDeal(addr)]_vars

\* hands dealt and played one after the other at one node: the players fold
\* and check their way through a hand, and the next hand is dealt
SpecKeys ==
    InitHoleCards /\ [][\/ \E addr \in Players : SetPlayerReadyDeal(addr)
                        \/ \E addr \in Players, actionStr \in {"fold", "check"} :
                              PlayerAction(addr, actionStr, 0)]_vars

(* ---------------- internal/deck: hand evaluation ---------------- *)
\* evaluator.go evaluateFiveCardHand, sort.Slice: the values of the cards in
\* descending order
RECURSIVE SortedValues(_)
SortedValues(cards) ==
    IF cards = {} THEN <<>>
    ELSE LET c == CHOOSE c \in cards : \A d \in cards : d.Value <= c.Value
         IN <<c.Value>> \o SortedValues(cards \ {c})

\* evaluator.go getValueCounts: the values with their counts, by count and
\* then by value, both descending
getValueCounts(cards) ==
    LET count(v) == Cardinality({c \in cards : c.Value = v})
        RECURSIVE order(_)
        order(V) ==
            IF V = {} THEN <<>>
            ELSE LET v == CHOOSE v \in V : \A w \in V :
                              \/ count(v) > count(w)
                              \/ count(v) = count(w) /\ v >= w
                 IN <<[value |-> v, count |-> count(v)]>> \o order(V \ {v})
    IN order({c.Value : c \in cards})

\* evaluator.go evaluateFiveCardHand with checkFlush and checkStraight; the
\* rank is the hand category times 1000000 plus the kickers
evaluateFiveCardHand(cards) ==
    IF Cardinality(cards) # 5 THEN 999999
    ELSE
    LET sorted == SortedValues(cards)
        isFlush == \A c, d \in cards : c.Suit = d.Suit
        regular == \A i \in 1..4 : sorted[i] - sorted[i + 1] = 1
        wheel == sorted = <<14, 5, 4, 3, 2>>
        isStraight == regular \/ wheel
        straightHigh == IF regular THEN sorted[1] ELSE IF wheel THEN 5 ELSE 0
        valueCounts == getValueCounts(cards)
        RECURSIVE weighted(_, _)
        weighted(i, unit) ==
            IF i > 5 THEN 0 ELSE sorted[i] * (unit \div i) + weighted(i + 1, unit)
    IN IF isFlush /\ isStraight /\ straightHigh = 14 THEN 9 * 1000000 + straightHigh
       ELSE IF isFlush /\ isStraight THEN 8 * 1000000 + straightHigh
       ELSE IF valueCounts[1].count = 4
            THEN 7 * 1000000 + valueCounts[1].value * 1000 + valueCounts[2].value
       ELSE IF valueCounts[1].count = 3 /\ valueCounts[2].count = 2
            THEN 6 * 1000000 + valueCounts[1].value * 1000 + valueCounts[2].value
       ELSE IF isFlush THEN 5 * 1000000 + weighted(1, 1000)
       ELSE IF isStraight THEN 4 * 1000000 + straightHigh
       ELSE IF valueCounts[1].count = 3
            THEN 3 * 1000000 + valueCounts[1].value * 1000
                 + valueCounts[2].value * 10 + valueCounts[3].value
       ELSE IF valueCounts[1].count = 2 /\ valueCounts[2].count = 2
            THEN 2 * 1000000 + valueCounts[1].value * 1000
                 + valueCounts[2].value * 10 + valueCounts[3].value
       ELSE IF valueCounts[1].count = 2
            THEN 1 * 1000000 + valueCounts[1].value * 1000 + valueCounts[2].value * 100
                 + valueCounts[3].value * 10 + valueCounts[4].value
       ELSE weighted(1, 10000)

\* evaluator.go EvaluateBestHand with generateCombinations: bestRank starts
\* at 999999 and is replaced only by a smaller rank of a five-card combination
EvaluateBestHand(holeCards, communityCards) ==
    LET allCards == holeCards \cup communityCards
        ranks == {evaluateFiveCardHand(combo) :
                     combo \in {S \in SUBSET allCards : Cardinality(S) = 5}}
        bestRank == 999999
        better == {r \in ranks : r < bestRank}
    IN IF Cardinality(allCards) < 5 THEN 999999
       ELSE IF better = {} THEN bestRank
       ELSE CHOOSE r \in better : \A q \in better : r <= q

\* Hold'em strength of the best five cards of a hand: the category (High
\* Card 0 .. Royal Flush 9), then the kickers in descending order of
\* importance, as digits in base 15; a stronger hand has a larger number
HoldemStrength(cards) ==
    LET five(S) ==
            LET sorted == SortedValues(S)
                groups == getValueCounts(S)
                flush == \A c, d \in S : c.Suit = d.Suit
                wheel == {c.Value : c \in S} = {14, 5, 4, 3, 2}
                straight == Len(groups) = 5 /\ (sorted[1] - sorted[5] = 4 \/ wheel)
                high == IF wheel THEN 5 ELSE sorted[1]
                category ==
                    IF flush /\ straight /\ high = 14 THEN 9
                    ELSE IF flush /\ straight THEN 8
                    ELSE IF groups[1].count = 4 THEN 7
                    ELSE IF groups[1].count = 3 /\ groups[2].count = 2 THEN 6
                    ELSE IF flush THEN 5
                    ELSE IF straight THEN 4
                    ELSE IF groups[1].count = 3 THEN 3
                    ELSE IF groups[1].count = 2 /\ groups[2].count = 2 THEN 2
                    ELSE IF groups[1].count = 2 THEN 1
                    ELSE 0
                kickers == IF straight THEN <<high>>
                           ELSE [k \in DOMAIN groups |-> groups[k].value]
                RECURSIVE digits(_, _)
                digits(k, acc) ==
                    IF k > 5 THEN acc
                    ELSE digits(k + 1, acc * 15 + (IF k <= Len(kickers) THEN kickers[k] ELSE 0))
            IN digits(1, category)
        strengths == {five(S) : S \in {S \in SUBSET cards : Cardinality(S) = 5}}
    IN CHOOSE x \in strengths : \A y \in strengths : x >= y

\* two hands of two hole cards each and three to MaxCommunity community
\* cards, drawn without repetition from nine cards of the deck
InitEvaluate ==
    /\ LET pack == {[Suit |-> 0, Value |-> v] : v \in {2, 3, 4, 5, 6, 14}}
                   \cup {[Suit |-> 1, Value |-> v] : v \in {2, 5, 14}}
       IN \E communityCards \in SUBSET pack :
          \E holeA \in SUBSET (pack \ communityCards) :
          \E holeB \in SUBSET (pack \ (communityCards \cup holeA)) :
             /\ Cardinality(communityCards) \in 3..MaxCommunity
             /\ Cardinality(holeA) = 2
             /\ Cardinality(holeB) = 2
             /\ deckState = [communityCards |-> communityCards, holeA |-> holeA,
                             holeB |-> holeB, ranked |-> FALSE, rankA |-> 0, rankB |-> 0]
    /\ playerStates = [a \in {} |-> NewPlayerState]
    /\ rotationMap = NoSeats
    /\ nextRotationID = 0
    /\ currentDealerID = 0
    /\ currentPlayerTurn = 0
    /\ currentStatus = "Waiting"
    /\ currentPot = 0
    /\ highestBet = 0
    /\ lastRaiserID = 0
    /\ lastRaiseAmount = 0
    /\ blockchainEnabled = FALSE
    /\ blockchainGameID = FALSE
    /\ handStart = [chips |-> 0, seats |-> NoSeats]
    /\ acted = {}
    /\ hands = 0 /\ nActs = 0 /\ nIdleActs = 0 /\ nLeaves = 0
    /\ dh = NewDisconnectHandler
    /\ hub = NewWebSocketHub

\* showdown.go ResolveWinner: EvaluateBestHand on each hand
EvaluateHands ==
    /\ ~deckState.ranked
    /\ deckState' = [deckState EXCEPT
          !.ranked = TRUE,
          !.rankA = EvaluateBestHand(deckState.holeA, deckState.communityCards),
          !.rankB = EvaluateBestHand(deckState.holeB, deckState.communityCards)]
    /\ UNCHANGED <<tableVars, hub>>

SpecEvaluate == InitEvaluate /\ [][EvaluateHands]_vars

(* ---------------- properties ---------------- *)

\* the players ResolveWinner pays: ready, active and not folded
Survivors(ps) ==
    {a \in DOMAIN ps : ps[a].IsReady /\ ps[a].IsActive /\ ~ps[a].IsFolded}

\* C1 (chip conservation): whenever a hand ends with a showdown or a
\* walkover, that is, the status returns to Waiting from a hand status with
\* at least one player left to pay, the stacks of all players sum to what
\* they summed to just before the blinds of that hand were posted (plus the
\* stacks of players added since).  Behaviours in which an action was
\* accepted while no hand was in progress are left aside.
C1_ChipConservation ==
    [][(/\ nIdleActs = 0
        /\ currentStatus \in HandStatuses
        /\ currentStatus' = "Waiting"
        /\ Survivors(playerStates') # {})
          => SumStacks(playerStates') = handStart.chips]_vars

\* C2 (pot accounting): while a hand is in progress the pot equals the sum of
\* TotalBetThisHand over every player the table knows, dealt in or not.
C2_PotAccounting ==
    currentStatus \in HandStatuses => currentPot = SumTotalBets(playerStates)

\* C3 (turn legality): in PreFlop, Flop, Turn and River the player seated at
\* currentPlayerTurn is active, not folded and not all-in, unless every
\* remaining non-folded player is all-in.
C3_TurnLegality ==
    currentStatus \in BettingStatuses =>
        \/ /\ currentPlayerTurn \in DOMAIN rotationMap
           /\ CanAct(G, rotationMap[currentPlayerTurn])
        \/ \A a \in ActiveNonFolded(G) : playerStates[a].IsAllIn

\* the players dealt into the current hand
Seated == {handStart.seats[i] : i \in DOMAIN handStart.seats}

\* C4 (round end by matched bets): when checkRoundEnd closes a betting round
\* because the bets are matched and the turn is back at the last raiser,
\* every player of the hand who can act has acted in that round since the
\* last bet or raise.
C4_RoundEndAfterAllActed ==
    \A in \in ActionInputs : \A sd \in ShowdownInputsOf(in) :
        LET g == OutcomeOf(in, sd)
        IN \A i \in DOMAIN g.roundEnds :
              (g.roundEnds[i].reason = "matched"
                 /\ g.roundEnds[i].from \in BettingStatuses)
                 => g.roundEnds[i].unacted \cap Seated = {}

\* C5 (fold walkover): an action accepted during a hand that leaves at most
\* one active non-folded player ends the hand in that step: the status is
\* Waiting, the pot is empty and, if a player is left, the pot went to the
\* stacks.
C5_FoldWalkover ==
    [][(/\ nActs' = nActs + 1
        /\ currentStatus \in BettingStatuses
        /\ Cardinality(ActiveNonFolded(G)') <= 1)
          => /\ currentStatus' = "Waiting"
             /\ currentPot' = 0
             /\ ActiveNonFolded(G)' # {} =>
                   SumStacks(playerStates') = SumStacks(playerStates) + currentPot]_vars

\* C6 (all-in lock): an action accepted during a hand after which two or
\* more players are left and none of them can act (every remaining player is
\* all-in) runs the hand to its end in that step: the status is Waiting.
C6_AllInLock ==
    [][(/\ nActs' = nActs + 1
        /\ currentStatus \in BettingStatuses
        /\ Cardinality(ActiveNonFolded(G)') >= 2
        /\ CanActSet(G)' = {})
          => currentStatus' = "Waiting"]_vars

StatusCycle ==
    {<<"Waiting", "Dealing">>, <<"Dealing", "PreFlop">>, <<"PreFlop", "Flop">>,
     <<"Flop", "Turn">>, <<"Turn", "River">>, <<"River", "Showdown">>,
     <<"Showdown", "Waiting">>}

\* every setStatus call of a handler moved the status to one of the seven:
\* the next status of the cycle, or Waiting
LegalTrace(g) ==
    \A i \in 2..Len(g.statusTrace) :
        \/ g.statusTrace[i] = "Waiting"
        \/ <<g.statusTrace[i - 1], g.statusTrace[i]>> \in StatusCycle

\* C7 (status cycle): the status is one of the seven, and every setStatus
\* call of every handler, the penalty ending included, moves it to the next
\* status of the cycle or to Waiting.
C7_StatusCycle ==
    /\ currentStatus \in Statuses
    /\ \A in \in ActionInputs : \A sd \in ShowdownInputsOf(in) :
          LegalTrace(OutcomeOf(in, sd))
    /\ \A a \in Players :
          /\ LegalTrace(AddPlayerG(G, a))
          /\ LegalTrace(RemovePlayerG(G, a))
          /\ \A ok \in BOOLEAN :
                /\ LegalTrace(SetPlayerReadyG(G, a, ok))
                /\ LegalTrace(EndGameWithPenaltyG(G, a, ok))

\* the fields of Game that make up the table state
Table(g) ==
    <<g.playerStates, g.rotationMap, g.nextRotationID, g.currentDealerID,
      g.currentPlayerTurn, g.currentStatus, g.currentPot, g.highestBet,
      g.lastRaiserID, g.lastRaiseAmount, g.blockchainGameID>>

\* C8 (rejections have no effect): a player_action that HandlePlayerAction
\* rejects leaves every field of the table as it was and sends no message.
C8_RejectedNoEffect ==
    \A in \in ActionInputs : \A sd \in ShowdownInputsOf(in) :
        LET g == OutcomeOf(in, sd)
        IN g.err # "" => Table(g) = Table(G) /\ g.sent = <<>>

\* a rejection of each kind the claim names, in the middle of a hand
C8_Witness ==
    /\ currentStatus = "Flop"
    /\ currentPot > 0
    /\ \A e \in {"player not found", "it is not your turn", "invalid action",
                 "bet below big blind", "bet exceeds stack"} :
          \E in \in ActionInputs : \E sd \in ShowdownInputsOf(in) :
             OutcomeOf(in, sd).err = e

\* C9 (only the seated player acts): during a hand an action is accepted
\* only from the player dealt into the hand at seat currentPlayerTurn.
C9_OnlySeatedPlayerActs ==
    \A in \in ActionInputs : \A sd \in ShowdownInputsOf(in) :
        (OutcomeOf(in, sd).err = "" /\ currentStatus \in BettingStatuses)
           => /\ currentPlayerTurn \in DOMAIN handStart.seats
              /\ handStart.seats[currentPlayerTurn] = in.addr

\* C10 (no action outside a betting round): in Waiting, Dealing and Showdown
\* every player_action is rejected and changes nothing.
C10_RejectedOutsideRound ==
    currentStatus \in {"Waiting", "Dealing", "Showdown"} =>
        \A in \in ActionInputs : \A sd \in ShowdownInputsOf(in) :
           LET g == OutcomeOf(in, sd)
           IN g.err # "" /\ Table(g) = Table(G)

\* whether p is to act in a betting round, by the test of HandlePlayerAction
ToAct(p) ==
    /\ currentStatus \in BettingStatuses
    /\ playerStates[p].RotationID = currentPlayerTurn

\* C11 (legal actions): for the player to act getValidActions always offers
\* fold, offers check exactly when CurrentRoundBet = highestBet, and offers
\* call exactly when highestBet > CurrentRoundBet and Stack > 0.
C11_ValidActionsRule ==
    \A p \in DOMAIN playerStates :
        ToAct(p) =>
            LET va == getValidActions(G, p)
                st == playerStates[p]
            IN /\ "fold" \in va
               /\ "check" \in va <=> st.CurrentRoundBet = highestBet
               /\ "call" \in va <=> (highestBet > st.CurrentRoundBet /\ st.Stack > 0)

\* C12 (bet): a bet of v by the player to act is accepted exactly when
\* highestBet = 0 and BigBlind <= v <= Stack, and an accepted bet that does
\* not end the hand leaves lastRaiseAmount = v.
C12_BetRule ==
    \A in \in ActionInputs : \A sd \in ShowdownInputsOf(in) :
        (in.actionStr = "bet" /\ in.addr \in DOMAIN playerStates /\ ToAct(in.addr))
           => LET g == OutcomeOf(in, sd)
                  legal == /\ highestBet = 0
                           /\ BigBlind <= in.value
                           /\ in.value <= playerStates[in.addr].Stack
              IN /\ g.err = "" <=> legal
                 /\ (g.err = "" /\ g.handEnd = "none") => g.lastRaiseAmount = in.value

\* C13 (raise): a raise to v by the player to act is accepted exactly when
\* highestBet > 0 and highestBet + lastRaiseAmount <= v <= Stack +
\* CurrentRoundBet; an accepted raise that does not end the hand leaves
\* lastRaiseAmount = v - highestBet (the highest bet before the raise); and a
\* player whose Stack is at most highestBet + lastRaiseAmount -
\* CurrentRoundBet has every raise rejected while a call is still accepted.
C13_RaiseRule ==
    \A in \in ActionInputs : \A sd \in ShowdownInputsOf(in) :
        (in.addr \in DOMAIN playerStates /\ ToAct(in.addr))
           => LET g == OutcomeOf(in, sd)
                  st == playerStates[in.addr]
                  minRaiseTotal == highestBet + lastRaiseAmount
                  legal == /\ highestBet > 0
                           /\ minRaiseTotal <= in.value
                           /\ in.value <= st.Stack + st.CurrentRoundBet
                  short == st.Stack <= minRaiseTotal - st.CurrentRoundBet
              IN /\ in.actionStr = "raise" =>
                     /\ g.err = "" <=> legal
                     /\ (g.err = "" /\ g.handEnd = "none")
                           => g.lastRaiseAmount = in.value - highestBet
                     /\ short => g.err # ""
                 /\ (in.actionStr = "call" /\ short /\ st.Stack > 0
                       /\ highestBet > st.CurrentRoundBet) => g.err = ""

\* the blinds of a hand as the rules post them: heads-up the dealer posts the
\* small blind and acts first; otherwise the seats after the dealer post the
\* small and the big blind and the seat after the big blind acts first
BlindsAsSpecified(g) ==
    LET n == g.nextRotationID
        d == g.currentDealerID
        sb == IF n = 2 THEN d ELSE (d + 1) % n
        bb == (sb + 1) % n
        first == IF n = 2 THEN d ELSE (bb + 1) % n
    IN /\ g.playerStates[g.rotationMap[sb]].TotalBetThisHand = SmallBlind
       /\ g.playerStates[g.rotationMap[bb]].TotalBetThisHand = BigBlind
       /\ g.currentPlayerTurn = first
       /\ g.highestBet = BigBlind
       /\ g.lastRaiseAmount = BigBlind
       /\ g.lastRaiserID = bb

\* C14 (blinds): right after the step that deals a hand, whatever the stacks
\* of the players dealt in, the small and the big blind are posted by the
\* seats the rules name, the first player to act is the one the rules name,
\* highestBet = BigBlind, lastRaiseAmount = BigBlind and lastRaiserID is the
\* big-blind seat.
C14_BlindsPosted ==
    [][hands' = hands + 1 => BlindsAsSpecified(G)']_vars

RECURSIVE SumAmounts(_)
SumAmounts(pots) ==
    IF pots = <<>> THEN 0 ELSE pots[1].Amount + SumAmounts(Tail(pots))

\* C15 (side pots cover the pot): whenever ResolveWinner computes side pots
\* to compare two or more hands, their amounts sum to currentPot, also when contributors have folded, were
\* removed or became inactive.
C15_SidePotsCoverPot ==
    \A in \in ActionInputs : \A sd \in ShowdownInputsOf(in) :
        LET g == OutcomeOf(in, sd)
        IN \A i \in DOMAIN g.showdown :
              Len(g.showdown[i].playerHands) >= 2 =>
                 SumAmounts(g.showdown[i].sidePots) = g.showdown[i].currentPot

\* C16 (side-pot eligibility): for every side pot ResolveWinner computes to
\* compare two or more hands, the
\* eligible players are exactly the non-folded players whose TotalBetThisHand
\* is at least the cap of the pot, every non-folded player of the hand is
\* eligible for at least one pot, and every pot has an eligible non-folded
\* player.
C16_SidePotEligibility ==
    \A in \in ActionInputs : \A sd \in ShowdownInputsOf(in) :
        LET g == OutcomeOf(in, sd)
        IN \A i \in DOMAIN g.showdown :
              LET ps == g.showdown[i].playerStates
                  pots == g.showdown[i].sidePots
              IN Len(g.showdown[i].playerHands) >= 2 =>
                 /\ \A k \in DOMAIN pots :
                       pots[k].EligiblePlayers =
                           {a \in DOMAIN ps : /\ ~ps[a].IsFolded
                                              /\ ps[a].TotalBetThisHand >= pots[k].Cap}
                 /\ \A a \in Seated :
                       ~ps[a].IsFolded =>
                           \E k \in DOMAIN pots : a \in pots[k].EligiblePlayers
                 /\ \A k \in DOMAIN pots :
                       \E a \in pots[k].EligiblePlayers : ~ps[a].IsFolded

\* C17 (showdown distribution): the stacks after a showdown do not depend on
\* the iteration order of the player map: they are the stacks obtained when
\* the hands are compared in rotation order, where each pot goes to the
\* eligible non-folded hands of minimum rank, split by integer division with
\* the remainder to the tied winner of smallest RotationID.
C17_ShowdownDeterministic ==
    \A in \in ActionInputs : \A sd \in ShowdownInputsOf(in) :
        LET g == OutcomeOf(in, sd)
            byRotation == OutcomeOf(in, [ranks |-> sd.ranks, order |-> AddrOrder])
        IN g.handEnd = "showdown"
              => Stacks(g.playerStates) = Stacks(byRotation.playerStates)

\* C18 (elimination at hand end): when a call of HandlePlayerAction ends the
\* hand, by showdown or by walkover, then at the end of that call the status
\* is Waiting and every player with a stack of 0 is inactive.
C18_BustedInactiveAtHandEnd ==
    \A in \in ActionInputs : \A sd \in ShowdownInputsOf(in) :
        LET g == OutcomeOf(in, sd)
        IN g.handEnd # "none"
              => /\ g.currentStatus = "Waiting"
                 /\ \A p \in DOMAIN g.playerStates :
                       g.playerStates[p].Stack = 0 => ~g.playerStates[p].IsActive

\* a showdown that leaves a player who was active with no chips
C18_Witness ==
    \E in \in ActionInputs : \E sd \in ShowdownInputsOf(in) :
        LET g == OutcomeOf(in, sd)
        IN /\ g.handEnd = "showdown"
           /\ \E p \in DOMAIN playerStates :
                 /\ playerStates[p].IsActive
                 /\ g.playerStates[p].Stack = 0
                 /\ ~g.playerStates[p].IsActive


\* C19: a player whose reconnect was notified before their grace timer
\* fired is never sent down the penalty pathway for that disconnect, and is
\* active once the disconnect handler has returned, however the notification
\* interleaves with the steps of the handler
C19_ReconnectBeatsTimer ==
    \A p \in DOMAIN playerStates :
        dh.early[p] =>
            /\ p \notin dh.abandoned
            /\ dh.pc[p] = "done" => playerStates[p].IsActive

\* C20: one hand sees at most one penalty distribution and at most one
\* EndGameWithPenalty call, whatever the number of grace timers that expire
C20_OnePenaltyPerHand ==
    /\ Len(dh.penalties) <= 1
    /\ dh.endCalls <= 1

\* the remaining player with the smallest rotation id, ties by address order
SmallestRotation(S) ==
    CHOOSE a \in S : \A b \in S :
        \/ playerStates[a].RotationID < playerStates[b].RotationID
        \/ /\ playerStates[a].RotationID = playerStates[b].RotationID
           /\ \E i, j \in 1..Len(AddrOrder) : AddrOrder[i] = a /\ AddrOrder[j] = b /\ i <= j

\* C21: a penalty distribution for abandoned player X zeroes X's stack and
\* adds X's stack plus X's total bet of the hand to the stacks of the
\* players left in equal integer shares, the remainder going to the one
\* with the smallest rotation id; no player left ends below their stack
\* plus their own contribution
C21_PenaltySplit ==
    [][Len(dh.penalties') = Len(dh.penalties) + 1 =>
        LET run == dh.penalties'[Len(dh.penalties')]
            X == run.player
            forfeited == run.before[X].Stack + run.before[X].TotalBetThisHand
            share == forfeited \div Cardinality(run.left)
            rest == forfeited % Cardinality(run.left)
        IN /\ playerStates'[X].Stack = 0
           /\ \A r \in run.left :
                 /\ playerStates'[r].Stack = run.before[r].Stack + share
                        + (IF r = SmallestRotation(run.left) THEN rest ELSE 0)
                 /\ playerStates'[r].Stack >=
                        run.before[r].Stack + run.before[r].TotalBetThisHand
    ]_vars

\* C22: when a grace timer has expired and the penalty pathway has run, the
\* game status is Waiting
C22_WaitingAfterPenalty ==
    \A i \in DOMAIN dh.penalties :
        dh.pc[dh.penalties[i].by] = "done" => currentStatus = "Waiting"

\* the in-game state: stacks and bets, seats, pot, status and its transitions,
\* how the hand ended
InGame(g) ==
    <<g.playerStates, g.rotationMap, g.currentPlayerTurn, g.currentPot,
      g.currentStatus, g.statusTrace, g.handEnd>>

\* C23: the in-game state a handler leaves is the same whether the
\* settlement adapter's call succeeds or fails: CreateGame when the hand is
\* dealt, EndGameWithPenalty when a grace timer has expired
C23_AdapterIndependent ==
    /\ \A ok \in BOOLEAN :
          InGame(SetPlayerReadyG(SetPlayerReadyG(Joined(blockchainEnabled), "a", TRUE), "b", ok))
            = InGame(TableInHand(blockchainEnabled))
    /\ \A p \in DOMAIN playerStates :
          dh.pc[p] = "wait" /\ dh.timer[p] = "fired" =>
            LET d2 == [dh EXCEPT !.abandoned = @ \cup {p}]
            IN \A first \in RemainingPlayers(d2, G, p) :
                 InGame(abortGameWithPenaltyG(d2, G, p, first, TRUE))
                   = InGame(abortGameWithPenaltyG(d2, G, p, first, FALSE))

\* C25: a payload m in [1, p - 1] encrypted with one to three valid key
\* pairs over the prime p, in any order, and then decrypted with the same
\* key pairs, in any order, is m again
C25_CipherRoundTrip ==
    /\ deckState.applied = DOMAIN deckState.keysList
    /\ deckState.removed = DOMAIN deckState.keysList
    => deckState.data = Bytes(deckState.m)

\* three different key pairs were applied and removed on a two-byte payload
\* that the cipher changes
C25_Witness ==
    /\ Len(deckState.keysList) = MaxLayers
    /\ deckState.removed = DOMAIN deckState.keysList
    /\ \A i, j \in DOMAIN deckState.keysList :
          i # j => deckState.keysList[i] # deckState.keysList[j]
    /\ deckState.m = 260
    /\ Encrypt(deckState.keysList[1], Bytes(deckState.m)) # Bytes(deckState.m)

\* C26: the deck one ShuffleDeck call returns is a permutation of its input
\* and differs from it in at least four fifths of the slots
C26_ShuffleMovesCards ==
    deckState.calls > 0 =>
        /\ \A card \in SeqToSet(deckState.deck) :
              Cardinality({i \in DOMAIN deckState.deck : deckState.deck[i] = card})
                = Cardinality({i \in DOMAIN deckState.shuffled : deckState.shuffled[i] = card})
        /\ VerifyShuffle(deckState.deck, deckState.shuffled)

\* C24: once the deck is shuffled and dealt, the hole cards this node
\* recovered are the two plaintext cards the shuffles placed in slots 2i and
\* 2i + 1, i being the node's rotation id
C24_HoleCardsRecovered ==
    (deckState.currentDeck # <<>> /\ currentStatus # "Dealing"
       /\ \E seat \in DOMAIN rotationMap : rotationMap[seat] = deckState.listenAddr) =>
        LET i == playerStates[deckState.listenAddr].RotationID
        IN deckState.myHand =
              <<NewCardFromByte(deckState.plain[2 * i + 1][1]),
                NewCardFromByte(deckState.plain[2 * i + 2][1])>>

\* C27: of two hands evaluated on the same community cards, the one whose
\* best five cards are stronger under Hold'em rules gets the smaller rank
\* from EvaluateBestHand, and hands of equal strength get equal ranks
C27_RankMonotone ==
    deckState.ranked =>
        LET strengthA == HoldemStrength(deckState.holeA \cup deckState.communityCards)
            strengthB == HoldemStrength(deckState.holeB \cup deckState.communityCards)
        IN /\ strengthA > strengthB => deckState.rankA < deckState.rankB
           /\ strengthA = strengthB => deckState.rankA = deckState.rankB

\* C28: while a hand is in progress the rotation map is the assignment
\* made when the hand was dealt, and that assignment seats players in
\* sorted order of their ids on the seats 0..k-1
C28_RotationFixedInHand ==
    currentStatus \in HandStatuses =>
        /\ rotationMap = handStart.seats
        /\ \E k \in 0..Cardinality(Players) : DOMAIN rotationMap = 0..(k - 1)
        /\ \A i, j \in DOMAIN rotationMap :
              i < j => \E m, n \in 1..Len(AddrOrder) :
                          /\ AddrOrder[m] = rotationMap[i]
                          /\ AddrOrder[n] = rotationMap[j]
                          /\ m < n

\* C29: in every reachable state a player flagged all-in has no chips left
C29_AllInHasNoChips ==
    \A p \in DOMAIN playerStates : playerStates[p].IsAllIn => playerStates[p].Stack = 0


\* C30: whenever a step of a dealt hand takes a player's last chips (the stack
\* was positive before the step and is exactly 0 after it), the player is
\* flagged all-in after that step
C30_ZeroStackIsAllIn ==
    [][\A p \in DOMAIN playerStates :
          (/\ currentStatus \in HandStatuses
           /\ p \in DOMAIN playerStates'
           /\ playerStates[p].Stack > 0
           /\ playerStates'[p].Stack = 0)
          => playerStates'[p].IsAllIn]_vars

\* C31: whenever HandlePlayerAction accepts a fold, it sends exactly one
\* reveal_keys message; that message comes from the folding player's own node
\* (so the deckKeys it carries are the folding player's), goes to the other
\* players of the table, is sent while the player is not yet marked folded,
\* and precedes the player_action message of the fold
C31_FoldRevealsOwnKeys ==
    \A in \in ActionInputs : \A sd \in ShowdownInputsOf(in) :
        LET g == OutcomeOf(in, sd)
            reveals == {i \in 1..Len(g.sent) : g.sent[i].type = "reveal_keys"}
        IN (g.err = "" /\ in.actionStr = "fold") =>
              /\ Cardinality(reveals) = 1
              /\ \A i \in reveals :
                    /\ g.sent[i].payload = <<"deckKeys">>
                    /\ g.sent[i].from = in.addr
                    /\ g.sent[i].targets = DOMAIN playerStates \ {in.addr}
                    /\ in.addr \notin g.sent[i].folded
                    /\ \A j \in 1..Len(g.sent) :
                          g.sent[j].type = "player_action" => i < j

\* C32: the number of community cards tracks the street: none while the
\* status is Dealing or PreFlop, 3 in Flop, 4 in Turn, 5 in River and Showdown
C32_CommunityTracksStreet ==
    LET n == Len(deckState.communityCards)
    IN /\ currentStatus \in {"Dealing", "PreFlop"} => n = 0
       /\ currentStatus = "Flop" => n = 3
       /\ currentStatus = "Turn" => n = 4
       /\ currentStatus \in {"River", "Showdown"} => n = 5

\* the status that follows status s in the order of a hand
StatusAfter(s) ==
    CASE s = "Dealing" -> "PreFlop" [] s = "PreFlop" -> "Flop"
      [] s = "Flop" -> "Turn" [] s = "Turn" -> "River"
      [] s = "River" -> "Showdown" [] OTHER -> "Waiting"

\* C33: whenever an accepted action ends a betting round, after the call
\* every player's CurrentRoundBet is 0, highestBet is 0, lastRaiseAmount is
\* the big blind, and the status moved one step: to the next street, or from
\* River to Showdown, which resolves the hand
C33_RoundEndResets ==
    \A in \in ActionInputs : \A sd \in ShowdownInputsOf(in) :
        LET g == OutcomeOf(in, sd)
        IN (g.err = "" /\ currentStatus \in BettingStatuses /\ g.roundEnds # <<>>) =>
              /\ \A a \in DOMAIN g.playerStates : g.playerStates[a].CurrentRoundBet = 0
              /\ g.highestBet = 0
              /\ g.lastRaiseAmount = BigBlind
              /\ g.statusTrace[2] = StatusAfter(currentStatus)
              /\ currentStatus # "River" => Len(g.statusTrace) = 2

\* C34: the key pair a node encrypts the deck of a hand with is not the key
\* pair it held during the hand before: whenever a hand is dealt after an
\* earlier hand, deckKeys has changed
C34_FreshKeysPerHand ==
    [][(hands >= 1 /\ hands' = hands + 1) =>
          deckState'.deckKeys # deckState.deckKeys]_vars

\* C35: no call into the blockchain client (CreateGame, VerifyBuyIn,
\* StartGame, EndGame, EndGameWithPenalty) is made while g.lock is held,
\* whichever handler makes it: SetPlayerReady starting a hand,
\* HandlePlayerAction ending one, or EndGameWithPenalty
C35_AdapterCallsUnlocked ==
    LET unlocked(g) == \A i \in 1..Len(g.adapter) : ~g.adapter[i].lockHeld
    IN /\ \A addr \in Players, createOk \in BOOLEAN :
             unlocked(SetPlayerReadyG(G, addr, createOk))
       /\ \A in \in ActionInputs : \A sd \in ShowdownInputsOf(in) :
             unlocked(OutcomeOf(in, sd))
       /\ \A addr \in Players, submitOk \in BOOLEAN :
             unlocked(EndGameWithPenaltyG(G, addr, submitOk))

\* C36: every handler that changes the table (stacks, flags, status) does so
\* holding g.lock: AddPlayer, RemovePlayer, SetPlayerReady, HandlePlayerAction
\* and the penalty pathway handleAbandon runs when a grace timer has fired
C36_MutationsUnderLock ==
    LET guarded(g) == Table(g) # Table(G) => g.lockHeld
    IN /\ \A addr \in Players :
             guarded(AddPlayerG(G, addr)) /\ guarded(RemovePlayerG(G, addr))
       /\ \A addr \in Players, createOk \in BOOLEAN :
             guarded(SetPlayerReadyG(G, addr, createOk))
       /\ \A in \in ActionInputs : \A sd \in ShowdownInputsOf(in) :
             guarded(OutcomeOf(in, sd))
       /\ \A playerID \in DOMAIN playerStates :
             (dh.pc[playerID] = "wait" /\ dh.timer[playerID] = "fired") =>
                LET d == [dh EXCEPT !.abandoned = @ \cup {playerID}]
                IN \A first \in RemainingPlayers(d, G, playerID), submitOk \in BOOLEAN :
                      guarded(abortGameWithPenaltyG(d, G, playerID, first, submitOk))

\* C37: a goroutine that submits a message to the hub is never left waiting
\* in the submission and never panics in it, whatever the hub loop and Close
\* do meanwhile; if the buffer is full the message is dropped
C37_SubmitNeverBlocks ==
    \A p \in DOMAIN hub.pc : hub.pc[p] \notin {"blocked", "panicked"}

\* C38: however concurrent HandleDisconnect calls for one player interleave,
\* at most one of them gets past the already-handled check at a time, so the
\* player has at most one grace timer and one handler waiting on it, and
\* handleAbandon applies the penalty for that player at most once
C38_OneHandlerPerPlayer ==
    \A p \in Players :
        LET mine == {r \in Goroutines : PlayerOf(r) = p} IN
        /\ Cardinality({r \in mine : dh.pc[r] \in {"newTimer", "register", "select", "wait"}}) <= 1
        /\ Cardinality({r \in mine : dh.timer[r] \in {"running", "fired"}
                                        /\ dh.pc[r] # "done"}) <= 1
        /\ Cardinality({i \in DOMAIN dh.penalties : dh.penalties[i].player = p}) <= 1

\* C39: when RemovePlayer removes the player whose turn it is during a
\* betting round and another player can still act, the call moves the turn to
\* a player who can act or ends the round or the hand; the turn is not left
\* with the removed player
C39_RemovedTurnHolderReplaced ==
    [][\A addr \in DOMAIN playerStates :
          (/\ nLeaves' = nLeaves + 1
           /\ currentStatus \in BettingStatuses
           /\ currentPlayerTurn \in DOMAIN rotationMap
           /\ rotationMap[currentPlayerTurn] = addr
           /\ CanAct(G, addr)
           /\ ~playerStates'[addr].IsActive
           /\ CanActSet(G) \ {addr} # {})
          => \/ currentStatus' # currentStatus
             \/ /\ currentPlayerTurn' \in DOMAIN rotationMap'
                /\ rotationMap'[currentPlayerTurn'] # addr
                /\ LET next == playerStates'[rotationMap'[currentPlayerTurn']]
                   IN next.IsActive /\ ~next.IsFolded /\ ~next.IsAllIn]_vars

\* C40: a call that deals a hand assigns rotation ids only to players who
\* hold chips when it deals, also when a player eliminated in an earlier hand
\* was added again or notified as reconnected in between
C40_NoChiplessPlayerDealt ==
    [][hands' = hands + 1 =>
          \A i \in DOMAIN rotationMap' : playerStates[rotationMap'[i]].Stack > 0]_vars
====
